---------------------------- MODULE Spec2Model ----------------------------
(***************************************************************************)
(* Model of the form-filling content script (src/popup.js: AIBridge and    *)
(* FormAnalyzer) and of the page-side gateway (src/injected.js).           *)
(*                                                                         *)
(* JavaScript strings are modelled as sequences of one-character strings,  *)
(* so that trim / toLowerCase / regular-expression tests are computed and  *)
(* not assumed.  null / undefined results are the value Null.              *)
(***************************************************************************)
EXTENDS Integers, Sequences, FiniteSets, TLC

(***************************************************************************)
(* Strings                                                                 *)
(***************************************************************************)
Null == <<"<null>">>

Digits == {"0", "1", "2", "3", "4", "5", "6", "7", "8", "9"}

\* U+FEFF, the byte order mark
Bom == "<bom>"

\* the white space of String.prototype.trim and of \s among the characters
\* that occur here
Whitespace == {" ", "\t", "\n", "\r", Bom}

\* String.prototype.toLowerCase
toLowerCase(s) ==
  LET UpperCase ==
        <<"A", "B", "C", "D", "E", "F", "G", "H", "I", "J", "K", "L", "M",
          "N", "O", "P", "Q", "R", "S", "T", "U", "V", "W", "X", "Y", "Z">>
      LowerCase ==
        <<"a", "b", "c", "d", "e", "f", "g", "h", "i", "j", "k", "l", "m",
          "n", "o", "p", "q", "r", "s", "t", "u", "v", "w", "x", "y", "z">>
      lowerChar(c) ==
        IF \E i \in DOMAIN UpperCase : UpperCase[i] = c
        THEN LowerCase[CHOOSE i \in DOMAIN UpperCase : UpperCase[i] = c]
        ELSE c
  IN  [i \in DOMAIN s |-> lowerChar(s[i])]

\* String.prototype.trim
trim(s) ==
  IF \A i \in DOMAIN s : s[i] \in Whitespace
  THEN <<>>
  ELSE LET first == CHOOSE i \in DOMAIN s :
                      /\ s[i] \notin Whitespace
                      /\ \A j \in 1..(i - 1) : s[j] \in Whitespace
           last  == CHOOSE i \in DOMAIN s :
                      /\ s[i] \notin Whitespace
                      /\ \A j \in (i + 1)..Len(s) : s[j] \in Whitespace
       IN  SubSeq(s, first, last)

\* s.replace(/\s+/g, ' '): every maximal run of whitespace becomes one
\* space (the range is halved so that the evaluation does not nest once per
\* character)
collapseSpaces(s) ==
  LET RECURSIVE collapseRange(_, _)
      collapseRange(from, to) ==
        IF from > to THEN <<>>
        ELSE IF from = to
             THEN IF s[from] \notin Whitespace THEN <<s[from]>>
                  ELSE IF from < Len(s) /\ s[from + 1] \in Whitespace THEN <<>>
                  ELSE <<" ">>
        ELSE LET mid == (from + to) \div 2
             IN  collapseRange(from, mid) \o collapseRange(mid + 1, to)
  IN  collapseRange(1, Len(s))

\* String.prototype.padStart(2, '0')
padStart2(s) == IF Len(s) < 2 THEN <<"0">> \o s ELSE s

AllDigits(s) == \A i \in DOMAIN s : s[i] \in Digits

RECURSIVE DecimalValue(_)
DecimalValue(s) ==
  IF s = <<>> THEN 0
  ELSE 10 * DecimalValue(SubSeq(s, 1, Len(s) - 1))
       + (CHOOSE d \in 0..9 : ToString(d) = s[Len(s)])

(***************************************************************************)
(* Date normalisation: FormAnalyzer.sanitizeDateValue                      *)
(***************************************************************************)

DateWords == {<<"p", "r", "e", "s", "e", "n", "t">>, <<"c", "u", "r", "r", "e", "n", "t">>, <<"n", "o", "w">>, <<"t", "o", "d", "a", "y">>}

\* /^\d{4}-\d{2}-\d{2}$/.test(value)
IsoShape(value) ==
  /\ Len(value) = 10
  /\ \A i \in {1, 2, 3, 4, 6, 7, 9, 10} : value[i] \in Digits
  /\ value[5] = "-"
  /\ value[8] = "-"

\* /^(present|current|now|today)$/i.test(dateStr)
WordShape(dateStr) == toLowerCase(dateStr) \in DateWords

\* /^\d{4}$/.test(dateStr)
YearShape(dateStr) == Len(dateStr) = 4 /\ AllDigits(dateStr)

\* dateStr.match(/^(\d{4})[-\s]*(present|current|now|today)?/i): the
\* pattern is not anchored at its end and the word group is optional, so
\* after the four digits a run of k >= 0 separator characters and then either
\* a word or nothing is matched; the match exists as soon as the string
\* starts with four digits.
yearMatch(dateStr) ==
  /\ Len(dateStr) >= 4
  /\ AllDigits(SubSeq(dateStr, 1, 4))
  /\ \E k \in 0..(Len(dateStr) - 4) :
       /\ \A i \in 5..(4 + k) : dateStr[i] \in Whitespace \cup {"-"}
       /\ \/ \E w \in DateWords :
               /\ Len(dateStr) >= 4 + k + Len(w)
               /\ toLowerCase(SubSeq(dateStr, 5 + k, 4 + k + Len(w))) = w
          \/ TRUE

\* dateStr.match(/^(\d{1,2})[\/\-](\d{1,2})[\/\-](\d{4})$/): the lengths
\* <<a, b>> of the two leading groups, or the empty set when there is no match
slashDateSplits(dateStr) ==
  {ab \in (1..2) \X (1..2) :
     LET a == ab[1]
         b == ab[2]
     IN  /\ Len(dateStr) = a + b + 6
         /\ AllDigits(SubSeq(dateStr, 1, a))
         /\ dateStr[a + 1] \in {"/", "-"}
         /\ AllDigits(SubSeq(dateStr, a + 2, a + b + 1))
         /\ dateStr[a + b + 2] \in {"/", "-"}
         /\ AllDigits(SubSeq(dateStr, a + b + 3, a + b + 6))}

slashDate(dateStr) == slashDateSplits(dateStr) # {}

slashMonth(dateStr) ==
  LET ab == CHOOSE x \in slashDateSplits(dateStr) : TRUE
  IN  SubSeq(dateStr, 1, ab[1])

slashDay(dateStr) ==
  LET ab == CHOOSE x \in slashDateSplits(dateStr) : TRUE
  IN  SubSeq(dateStr, ab[1] + 2, ab[1] + ab[2] + 1)

slashYear(dateStr) == SubSeq(dateStr, Len(dateStr) - 3, Len(dateStr))


\* sanitizeDateValue(value).  today is today.toISOString().split('T')[0];
\* parsed is what new Date(dateStr) gives for a string no rule matched: Null
\* for an Invalid Date, otherwise parsed.toISOString().split('T')[0].
sanitizeDateValue(value, today, parsed) ==
  IF value = <<>> THEN Null
  ELSE IF IsoShape(value) THEN value
  ELSE LET dateStr == trim(value) IN
       IF WordShape(dateStr) THEN today
       ELSE IF YearShape(dateStr) THEN dateStr \o <<"-", "0", "1", "-", "0", "1">>
       ELSE IF yearMatch(dateStr) THEN SubSeq(dateStr, 1, 4) \o <<"-", "0", "1", "-", "0", "1">>
       ELSE IF slashDate(dateStr)
            THEN slashYear(dateStr) \o <<"-">> \o padStart2(slashMonth(dateStr))
                 \o <<"-">> \o padStart2(slashDay(dateStr))
       ELSE parsed

(***************************************************************************)
(* Field identity: FormAnalyzer.hashString / computeStableKey              *)
(***************************************************************************)
Base36Digits ==
  <<"0", "1", "2", "3", "4", "5", "6", "7", "8", "9", "a", "b", "c", "d",
    "e", "f", "g", "h", "i", "j", "k", "l", "m", "n", "o", "p", "q", "r",
    "s", "t", "u", "v", "w", "x", "y", "z">>

\* A 32-bit value is kept as two 16-bit halves <<high, low>>, so that no
\* intermediate result leaves the range of 32-bit signed integers.
Half == 65536

\* hashString(s): the loop  h = ((h << 5) - h) + s.charCodeAt(i); h |= 0
\* over the characters, then (h >>> 0).toString(36)
hashString(s) ==
  LET \* the characters with char codes 32..126, in code order (the grave
      \* accent, code 96, cannot be written in a string here and is named
      \* instead)
      Ascii ==
        <<" ", "!", "\"", "#", "$", "%", "&", "'", "(", ")", "*", "+", ",",
          "-", ".", "/", "0", "1", "2", "3", "4", "5", "6", "7", "8", "9",
          ":", ";", "<", "=", ">", "?", "@", "A", "B", "C", "D", "E", "F",
          "G", "H", "I", "J", "K", "L", "M", "N", "O", "P", "Q", "R", "S",
          "T", "U", "V", "W", "X", "Y", "Z", "[", "\\", "]", "^", "_",
          "<grave>", "a", "b", "c", "d", "e", "f", "g", "h", "i", "j", "k",
          "l", "m", "n", "o", "p", "q", "r", "s", "t", "u", "v", "w", "x",
          "y", "z", "{", "|", "}", "~">>
      \* String.prototype.charCodeAt
      charCodeAt(c) ==
        IF c = "\t" THEN 9
        ELSE IF c = "\n" THEN 10
        ELSE 31 + (CHOOSE i \in DOMAIN Ascii : Ascii[i] = c)
      \* one round of the loop (31 * h + code modulo 2^32; the sign is only
      \* a reading of the top bit)
      hashStep(h, code) ==
        LET low  == h[2] * 31 + code
            high == h[1] * 31 + (low \div Half)
        IN  <<high % Half, low % Half>>
      \* the loop over the characters s[from..to], starting from the value
      \* h (the range is halved so that the evaluation does not nest once
      \* per character)
      RECURSIVE hashRange(_, _, _)
      hashRange(from, to, h) ==
        IF from > to THEN h
        ELSE IF from = to THEN hashStep(h, charCodeAt(s[from]))
        ELSE LET mid  == (from + to) \div 2
                 left == hashRange(from, mid, h)
             IN  \* the first half is computed before the second is started
                 IF left[1] >= 0 THEN hashRange(mid + 1, to, left) ELSE left
      \* (h >>> 0).toString(36)
      RECURSIVE toString36(_)
      toString36(h) ==
        LET qHigh == h[1] \div 36
            t     == (h[1] % 36) * Half + h[2]
            qLow  == t \div 36
            digit == Base36Digits[(t % 36) + 1]
        IN  IF qHigh = 0 /\ qLow = 0 THEN <<digit>>
            ELSE toString36(<<qHigh, qLow>>) \o <<digit>>
  IN  toString36(hashRange(1, Len(s), <<0, 0>>))

\* Number.prototype.toString for the integers that occur
RECURSIVE natToString(_)
natToString(n) ==
  IF n < 10 THEN <<Base36Digits[n + 1]>>
  ELSE natToString(n \div 10) \o <<Base36Digits[(n % 10) + 1]>>

numToString(n) == IF n < 0 THEN <<"-">> \o natToString(0 - n) ELSE natToString(n)

\* JSON.stringify of a string: the characters with their escapes, between
\* quotes
jsonString(s) ==
  LET RECURSIVE jsonEscapeRange(_, _)
      jsonEscapeRange(from, to) ==
        IF from > to THEN <<>>
        ELSE IF from = to
             THEN IF s[from] \in {"\"", "\\"} THEN <<"\\", s[from]>>
                  ELSE IF s[from] = "\n" THEN <<"\\", "n">>
                  ELSE IF s[from] = "\t" THEN <<"\\", "t">>
                  ELSE <<s[from]>>
        ELSE LET mid == (from + to) \div 2
             IN  jsonEscapeRange(from, mid) \o jsonEscapeRange(mid + 1, to)
  IN  <<"\"">> \o jsonEscapeRange(1, Len(s)) \o <<"\"">>

\* a variant of norm that neither trims nor collapses white space
norm_lowered(v) == toLowerCase(v)

\* norm in computeStableKey and resolveFieldIndex:
\* (v || '').toString().trim().toLowerCase().replace(/\s+/g, ' ')
norm(v) == collapseSpaces(toLowerCase(trim(v)))

\* norm in analyzeWithFullHtml: (s || '').toString().trim().toLowerCase()
normOption(v) == toLowerCase(trim(v))

\* list.map(norm).join('|')
RECURSIVE joinNorm(_)
joinNorm(list) ==
  IF list = <<>> THEN <<>>
  ELSE IF Len(list) = 1 THEN norm(list[1])
  ELSE norm(list[1]) \o <<"|">> \o joinNorm(Tail(list))

\* one "name":value member of the payload object, with its leading comma
member(name, jsonValue) == <<",">> \o jsonString(name) \o <<":">> \o jsonValue

\* computeStableKey(fj)
computeStableKey(fj) ==
  LET payload ==
        <<"{">> \o jsonString(<<"t">>) \o <<":">> \o jsonString(norm(fj.type))
        \o member(<<"t", "g">>, jsonString(norm(fj.tagName)))
        \o member(<<"i", "d">>, jsonString(norm(fj.id)))
        \o member(<<"n", "m">>, jsonString(norm(fj.name)))
        \o member(<<"l", "b">>, jsonString(norm(fj.label)))
        \o member(<<"p", "h">>, jsonString(norm(fj.placeholder)))
        \o member(<<"f", "i", "d">>, jsonString(norm(fj.formId)))
        \o member(<<"f", "n">>, jsonString(norm(fj.formName)))
        \o member(<<"f", "a">>, jsonString(norm(fj.formAction)))
        \o member(<<"f", "m">>, jsonString(norm(fj.formMethod)))
        \o member(<<"f", "i">>, numToString(fj.formIndex))
        \o member(<<"o", "f">>, numToString(fj.orderWithinForm))
        \o member(<<"p", "L">>, jsonString(joinNorm(fj.parentLabels)))
        \o member(<<"n", "T">>, jsonString(joinNorm(fj.nearbyText)))
        \o member(<<"c", "p">>, jsonString(norm(fj.cssPath)))
        \o <<"}">>
  IN  <<"k", "_">> \o hashString(payload)


\* String.prototype.includes
Includes(s, sub) ==
  \E i \in 1..(Len(s) - Len(sub) + 1) : SubSeq(s, i, i + Len(sub) - 1) = sub

\* the ascending sequence of the numbers of a finite set
SortedSeq(S) ==
  <<>> \o [k \in 1..Cardinality(S) |->
            CHOOSE x \in S : Cardinality({y \in S : y < x}) = k - 1]

RECURSIVE Concat(_)
Concat(seqs) == IF seqs = <<>> THEN <<>> ELSE Head(seqs) \o Concat(Tail(seqs))

(***************************************************************************)
(* The page.  A page is [forms, nodes]: its <form> elements and, in        *)
(* document order, the elements the collector's selectors can reach.  A    *)
(* node carries the attributes and the DOM-derived texts the content       *)
(* script reads: form is the index of the enclosing form (-1: none);       *)
(* labelFor / wrapLabel / labelledBy are the texts that                    *)
(* label[for=id], closest('label') and the aria-labelledby target give     *)
(* (Null: no such element); parentLabels, nearbyText and cssPath are what  *)
(* getParentLabels, getNearbyText and computeCssPath return for the node.  *)
(***************************************************************************)
\* element.type: the input's type attribute, the select's and textarea's
\* fixed type, undefined (empty) for other elements
elementType(node) ==
  IF node.tagName = <<"I", "N", "P", "U", "T">>
  THEN IF node.type = <<>> THEN <<"t", "e", "x", "t">> ELSE toLowerCase(node.type)
  ELSE IF node.tagName = <<"S", "E", "L", "E", "C", "T">>
       THEN <<"s", "e", "l", "e", "c", "t", "-", "o", "n", "e">>
  ELSE IF node.tagName = <<"T", "E", "X", "T", "A", "R", "E", "A">> THEN <<"t", "e", "x", "t", "a", "r", "e", "a">>
  ELSE <<>>

\* findLabel(element)
findLabel(node) ==
  IF node.id # <<>> /\ node.labelFor # Null THEN trim(node.labelFor)
  ELSE IF node.wrapLabel # Null THEN node.wrapLabel
  ELSE IF node.ariaLabel # <<>> THEN node.ariaLabel
  ELSE IF node.labelledBy # Null THEN trim(node.labelledBy)
  ELSE IF node.placeholder # <<>> THEN node.placeholder
  ELSE node.name

\* getFieldType(element)
getFieldType(node) ==
  LET
      w_tel == <<"t", "e", "l">>
      w_phone == <<"p", "h", "o", "n", "e">>
      w_password == <<"p", "a", "s", "s", "w", "o", "r", "d">>
      w_firstname == <<"f", "i", "r", "s", "t", "n", "a", "m", "e">>
      w_fname == <<"f", "n", "a", "m", "e">>
      w_first_name_words == <<"f", "i", "r", "s", "t", " ", "n", "a", "m", "e">>
      w_lastname == <<"l", "a", "s", "t", "n", "a", "m", "e">>
      w_lname == <<"l", "n", "a", "m", "e">>
      w_last_name_words == <<"l", "a", "s", "t", " ", "n", "a", "m", "e">>
      w_firstName == <<"f", "i", "r", "s", "t", "N", "a", "m", "e">>
      w_lastName == <<"l", "a", "s", "t", "N", "a", "m", "e">>
      w_fullName == <<"f", "u", "l", "l", "N", "a", "m", "e">>
      w_nameWord == <<"n", "a", "m", "e">>
      w_first == <<"f", "i", "r", "s", "t">>
      w_last == <<"l", "a", "s", "t">>
      w_sur == <<"s", "u", "r">>
      w_full == <<"f", "u", "l", "l">>
      w_address == <<"a", "d", "d", "r", "e", "s", "s">>
      w_address1 == <<"a", "d", "d", "r", "e", "s", "s", "1">>
      w_street_address_words ==
        <<"s", "t", "r", "e", "e", "t", " ", "a", "d", "d", "r", "e", "s", "s">>
      w_address2 == <<"a", "d", "d", "r", "e", "s", "s", "2">>
      w_address_line_2_words ==
        <<"a", "d", "d", "r", "e", "s", "s", " ", "l", "i", "n", "e", " ", "2">>
      w_city == <<"c", "i", "t", "y">>
      w_state == <<"s", "t", "a", "t", "e">>
      w_province == <<"p", "r", "o", "v", "i", "n", "c", "e">>
      w_zip == <<"z", "i", "p">>
      w_postal == <<"p", "o", "s", "t", "a", "l">>
      w_company == <<"c", "o", "m", "p", "a", "n", "y">>
      w_feedback == <<"f", "e", "e", "d", "b", "a", "c", "k">>
      w_how_did_you_hear_words ==
        <<"h", "o", "w", " ", "d", "i", "d", " ", "y", "o", "u", " ", "h", "e",
          "a", "r">>
      w_linkedin == <<"l", "i", "n", "k", "e", "d", "i", "n">>
      w_portfolio == <<"p", "o", "r", "t", "f", "o", "l", "i", "o">>
      w_url == <<"u", "r", "l">>
      w_job_title == <<"j", "o", "b", "_", "t", "i", "t", "l", "e">>
      w_experience_years ==
        <<"e", "x", "p", "e", "r", "i", "e", "n", "c", "e", "_", "y", "e", "a",
          "r", "s">>
      w_number == <<"n", "u", "m", "b", "e", "r">>
      w_skills == <<"s", "k", "i", "l", "l", "s">>
      w_cover_letter ==
        <<"c", "o", "v", "e", "r", "_", "l", "e", "t", "t", "e", "r">>
      w_start_date == <<"s", "t", "a", "r", "t", "_", "d", "a", "t", "e">>
      \* type, name, id, placeholder and label are read once
      classify(type, name, id, placeholder, label) ==
        IF node.tagName = <<"S", "E", "L", "E", "C", "T">> THEN <<"s", "e", "l", "e", "c", "t">>
        ELSE IF node.tagName = <<"T", "E", "X", "T", "A", "R", "E", "A">> THEN <<"t", "e", "x", "t", "a", "r", "e", "a">>
        ELSE IF type = <<"e", "m", "a", "i", "l">> \/ Includes(name, <<"e", "m", "a", "i", "l">>) \/ Includes(id, <<"e", "m", "a", "i", "l">>)
                \/ Includes(label, <<"e", "m", "a", "i", "l">>) THEN <<"e", "m", "a", "i", "l">>
        ELSE IF type = w_tel \/ Includes(name, w_phone) \/ Includes(id, w_phone)
                \/ Includes(label, w_phone) THEN w_phone
        ELSE IF type = w_password THEN w_password
        ELSE IF type = <<"d", "a", "t", "e">> \/ Includes(name, <<"d", "a", "t", "e">>) \/ Includes(id, <<"d", "a", "t", "e">>)
                \/ Includes(label, <<"d", "a", "t", "e">>) THEN <<"d", "a", "t", "e">>
        ELSE IF type = <<"f", "i", "l", "e">> THEN <<"f", "i", "l", "e">>
        ELSE IF name = w_firstname \/ id = w_fname \/ Includes(label, w_first_name_words)
             THEN w_firstName
        ELSE IF name = w_lastname \/ id = w_lname \/ Includes(label, w_last_name_words)
             THEN w_lastName
        ELSE IF Includes(name, w_nameWord) \/ Includes(id, w_nameWord)
                \/ Includes(placeholder, w_nameWord) \/ Includes(label, w_nameWord)
             THEN IF Includes(name, w_first) \/ Includes(id, w_first)
                     \/ Includes(label, w_first) THEN w_firstName
                  ELSE IF Includes(name, w_last) \/ Includes(id, w_last)
                          \/ Includes(label, w_last) \/ Includes(label, w_sur)
                       THEN w_lastName
                  ELSE IF Includes(name, w_full) \/ Includes(label, w_full) THEN w_fullName
                  ELSE w_nameWord
        ELSE IF name = w_address1 \/ id = w_address1
                \/ Includes(label, w_street_address_words) THEN w_address
        ELSE IF name = w_address2 \/ id = w_address2
                \/ Includes(label, w_address_line_2_words) THEN w_address2
        ELSE IF Includes(name, w_city) \/ Includes(id, w_city) \/ Includes(label, w_city)
             THEN w_city
        ELSE IF Includes(name, w_state) \/ Includes(id, w_state) \/ Includes(label, w_state)
                \/ Includes(label, w_province) THEN w_state
        ELSE IF Includes(name, w_zip) \/ Includes(id, w_zip) \/ Includes(name, w_postal)
                \/ Includes(label, w_zip) \/ Includes(label, w_postal) THEN w_zip
        ELSE IF Includes(name, w_company) \/ Includes(id, w_company)
                \/ Includes(label, w_company) THEN w_company
        ELSE IF name = w_feedback \/ id = w_feedback \/ Includes(label, w_feedback)
             THEN w_feedback
        ELSE IF name = <<"s", "p", "e", "c", "i", "f", "y">> \/ id = <<"s", "p", "e", "c", "i", "f", "y">> \/ Includes(label, <<"s", "p", "e", "c", "i", "f", "y">>)
             THEN <<"s", "p", "e", "c", "i", "f", "y">>
        ELSE IF name = <<"s", "o", "u", "r", "c", "e">> \/ id = <<"s", "o", "u", "r", "c", "e">>
                \/ Includes(label, w_how_did_you_hear_words) THEN <<"s", "o", "u", "r", "c", "e">>
        ELSE IF name = <<"p", "o", "s", "i", "t", "i", "o", "n">> \/ id = <<"p", "o", "s", "i", "t", "i", "o", "n">> THEN <<"p", "o", "s", "i", "t", "i", "o", "n">>
        ELSE IF name = w_linkedin \/ id = w_linkedin THEN w_url
        ELSE IF name = w_portfolio \/ id = w_portfolio THEN w_url
        ELSE IF name = w_job_title \/ id = w_job_title THEN <<"t", "e", "x", "t">>
        ELSE IF name = w_experience_years \/ id = w_experience_years THEN w_number
        ELSE IF name = w_skills \/ id = w_skills THEN <<"t", "e", "x", "t", "a", "r", "e", "a">>
        ELSE IF name = w_cover_letter \/ id = w_cover_letter THEN <<"t", "e", "x", "t", "a", "r", "e", "a">>
        ELSE IF name = <<"w", "o", "r", "k", "_", "a", "u", "t", "h", "o", "r", "i", "z", "a", "t", "i", "o", "n">> \/ id = <<"w", "o", "r", "k", "_", "a", "u", "t", "h", "o", "r", "i", "z", "a", "t", "i", "o", "n">> THEN <<"s", "e", "l", "e", "c", "t">>
        ELSE IF name = w_start_date \/ id = w_start_date THEN <<"d", "a", "t", "e">>
        ELSE IF type # <<>> THEN type ELSE <<"t", "e", "x", "t">>
  IN  classify(elementType(node), toLowerCase(node.name), toLowerCase(node.id),
               toLowerCase(node.placeholder), toLowerCase(findLabel(node)))


(***************************************************************************)
(* Field Collector: FormAnalyzer.collectAllFormElements                    *)
(***************************************************************************)
\* input:not([type="hidden"]):not([type="submit"]):not([type="button"]),
\* textarea, select
matchesInputSelector(node) ==
  \/ /\ node.tagName = <<"I", "N", "P", "U", "T">>
     /\ toLowerCase(node.type) \notin
          {<<"h", "i", "d", "d", "e", "n">>, <<"s", "u", "b", "m", "i", "t">>,
           <<"b", "u", "t", "t", "o", "n">>}
  \/ node.tagName \in {<<"T", "E", "X", "T", "A", "R", "E", "A">>, <<"S", "E", "L", "E", "C", "T">>}

\* [role="textbox"], [aria-label], [data-placeholder]
matchesPotentialSelector(node) ==
  \/ node.role = <<"t", "e", "x", "t", "b", "o", "x">>
  \/ node.ariaLabel # <<>>
  \/ node.dataPlaceholder # <<>>

\* the order counter the collector gives to everything outside the form and
\* standalone passes
LowPriorityOrder == 9999

\* the bounding box must be larger than this in both directions
MinRectSize == 5

\* the candidates of the first pass, form by form: every input of the form
\* takes the next orderWithinForm, whether or not addElement keeps it
formCandidates(page) ==
  Concat([f \in 1..Len(page.forms) |->
    LET each(inputs) ==
          [k \in DOMAIN inputs |->
            [element          |-> inputs[k],
             type             |-> getFieldType(page.nodes[inputs[k]]),
             label            |-> findLabel(page.nodes[inputs[k]]),
             formId           |-> page.forms[f].id,
             formName         |-> page.forms[f].name,
             formAction       |-> page.forms[f].action,
             formMethod       |-> page.forms[f].method,
             formIndex        |-> f - 1,
             orderWithinForm  |-> k - 1,
             isContentEditable |-> FALSE,
             isPotential      |-> FALSE]]
    IN  each(SortedSeq({i \in DOMAIN page.nodes :
                         /\ page.nodes[i].form = f - 1
                         /\ matchesInputSelector(page.nodes[i])}))])

\* the second pass: inputs outside every form; standaloneOrder is
\* incremented before the element is added
standaloneCandidates(page) ==
  LET each(inputs) ==
        [k \in DOMAIN inputs |->
          [element          |-> inputs[k],
           type             |-> getFieldType(page.nodes[inputs[k]]),
           label            |-> findLabel(page.nodes[inputs[k]]),
           formId           |-> <<>>,
           formName         |-> <<>>,
           formAction       |-> <<>>,
           formMethod       |-> <<>>,
           formIndex        |-> -1,
           orderWithinForm  |-> k,
           isContentEditable |-> FALSE,
           isPotential      |-> FALSE]]
  IN  each(SortedSeq({i \in DOMAIN page.nodes :
                       /\ page.nodes[i].form = -1
                       /\ matchesInputSelector(page.nodes[i])}))

\* the third pass: [contenteditable="true"]
editableCandidates(page) ==
  LET each(found) ==
        [k \in DOMAIN found |->
          [element          |-> found[k],
           type             |-> <<"t", "e", "x", "t">>,
           label            |-> findLabel(page.nodes[found[k]]),
           formId           |-> <<>>,
           formName         |-> <<>>,
           formAction       |-> <<>>,
           formMethod       |-> <<>>,
           formIndex        |-> page.nodes[found[k]].form,
           orderWithinForm  |-> LowPriorityOrder,
           isContentEditable |-> TRUE,
           isPotential      |-> FALSE]]
  IN  each(SortedSeq({i \in DOMAIN page.nodes : page.nodes[i].contentEditable}))

\* the fourth pass: elements with ARIA attributes
potentialCandidates(page) ==
  LET each(found) ==
        [k \in DOMAIN found |->
          [element          |-> found[k],
           type             |-> <<"t", "e", "x", "t">>,
           label            |-> IF page.nodes[found[k]].ariaLabel # <<>>
                                THEN page.nodes[found[k]].ariaLabel
                                ELSE page.nodes[found[k]].dataPlaceholder,
           formId           |-> <<>>,
           formName         |-> <<>>,
           formAction       |-> <<>>,
           formMethod       |-> <<>>,
           formIndex        |-> page.nodes[found[k]].form,
           orderWithinForm  |-> LowPriorityOrder,
           isContentEditable |-> FALSE,
           isPotential      |-> TRUE]]
  IN  each(SortedSeq({i \in DOMAIN page.nodes :
                       matchesPotentialSelector(page.nodes[i])}))

\* addElement over the candidates in pass order: an element is kept the first
\* time it is met, provided its bounding box is large enough
collectAllFormElements(page) ==
  LET visible(c) == /\ page.nodes[c.element].w > MinRectSize
                    /\ page.nodes[c.element].h > MinRectSize
      kept(cands) == {p \in DOMAIN cands :
                 /\ visible(cands[p])
                 /\ \A q \in 1..(p - 1) : cands[q].element # cands[p].element}
      pick(cands, order) == <<>> \o [k \in DOMAIN order |-> cands[order[k]]]
      addAll(cands) == pick(cands, SortedSeq(kept(cands)))
  IN  addAll(formCandidates(page) \o standaloneCandidates(page)
             \o editableCandidates(page) \o potentialCandidates(page))

(***************************************************************************)
(* Field Descriptor Builder: FormAnalyzer.createFieldsJson                 *)
(* Descriptors are numbered from 0 as in the source: descriptor i is       *)
(* fieldsJson[i + 1] and describes elements[i + 1].                        *)
(***************************************************************************)
createFieldsJson(page, elements) ==
  <<>> \o [k \in DOMAIN elements |->
    LET field == elements[k]
        node  == page.nodes[field.element]
        rec   == [index           |-> k - 1,
                  type            |-> field.type,
                  label           |-> field.label,
                  name            |-> node.name,
                  id              |-> node.id,
                  placeholder     |-> node.placeholder,
                  formId          |-> field.formId,
                  formName        |-> field.formName,
                  formAction      |-> field.formAction,
                  formMethod      |-> field.formMethod,
                  formIndex       |-> field.formIndex,
                  orderWithinForm |-> field.orderWithinForm,
                  tagName         |-> node.tagName,
                  parentLabels    |-> node.parentLabels,
                  nearbyText      |-> node.nearbyText,
                  cssPath         |-> node.cssPath]
    IN  [index           |-> rec.index,
         type            |-> rec.type,
         label           |-> rec.label,
         name            |-> rec.name,
         id              |-> rec.id,
         placeholder     |-> rec.placeholder,
         formId          |-> rec.formId,
         formName        |-> rec.formName,
         formAction      |-> rec.formAction,
         formMethod      |-> rec.formMethod,
         formIndex       |-> rec.formIndex,
         orderWithinForm |-> rec.orderWithinForm,
         tagName         |-> rec.tagName,
         parentLabels    |-> rec.parentLabels,
         nearbyText      |-> rec.nearbyText,
         cssPath         |-> rec.cssPath,
         stableKey       |-> computeStableKey(rec)]]

(***************************************************************************)
(* Pages                                                                   *)
(***************************************************************************)
\* an element with no attribute set, 200 x 30 pixels, inside form 0
BlankNode ==
  [tagName |-> <<"I", "N", "P", "U", "T">>, type |-> <<>>, id |-> <<>>, name |-> <<>>,
   placeholder |-> <<>>, labelFor |-> Null, wrapLabel |-> Null,
   ariaLabel |-> <<>>, labelledBy |-> Null, role |-> <<>>,
   dataPlaceholder |-> <<>>, contentEditable |-> FALSE, form |-> 0,
   w |-> 200, h |-> 30, options |-> <<>>, parentLabels |-> <<>>,
   nearbyText |-> <<>>, cssPath |-> <<>>]

\* <input type=.. id=.. name=..> with a <label for=id> and a unique id
LabelledInput(type, id, labelText) ==
  [BlankNode EXCEPT !.type = type, !.id = id, !.name = id,
                    !.labelFor = labelText, !.cssPath = <<"#">> \o id]

\* <select id=.. name=..> with a <label for=id> and the given options
LabelledSelect(id, labelText, options) ==
  [BlankNode EXCEPT !.tagName = <<"S", "E", "L", "E", "C", "T">>, !.id = id, !.name = id,
                    !.labelFor = labelText, !.options = options,
                    !.cssPath = <<"#">> \o id]

Option(value, text) == [value |-> value, text |-> text]

\* the number of plain text inputs q<i> that follow the named fields of the
\* application form
NumPlainInputs == 38

\* A job application form: named text inputs, a file input, the three
\* selects of the default table, a date input, then plain inputs, so that
\* the collected fields span three batches; after the form, two
\* content-editable blocks that carry the same id.  The form also holds a
\* hidden input, a submit button and an input that is not displayed.
ApplicationPage ==
  LET
      first_name == <<"f", "i", "r", "s", "t", "_", "n", "a", "m", "e">>
      First_Name == <<"F", "i", "r", "s", "t", " ", "N", "a", "m", "e">>
      last_name == <<"l", "a", "s", "t", "_", "n", "a", "m", "e">>
      Last_Name == <<"L", "a", "s", "t", " ", "N", "a", "m", "e">>
      Email == <<"E", "m", "a", "i", "l">>
      resume == <<"r", "e", "s", "u", "m", "e">>
      Resume == <<"R", "e", "s", "u", "m", "e">>
      How_did_you_hear ==
        <<"H", "o", "w", " ", "d", "i", "d", " ", "y", "o", "u", " ", "h",
          "e", "a", "r", " ", "a", "b", "o", "u", "t", " ", "u", "s", "?">>
      Work_authorization ==
        <<"W", "o", "r", "k", " ", "a", "u", "t", "h", "o", "r", "i", "z",
          "a", "t", "i", "o", "n">>
      Position == <<"P", "o", "s", "i", "t", "i", "o", "n">>
      start_date == <<"s", "t", "a", "r", "t", "_", "d", "a", "t", "e">>
      Start_date == <<"S", "t", "a", "r", "t", " ", "d", "a", "t", "e">>
      Please_specify ==
        <<"P", "l", "e", "a", "s", "e", " ", "s", "p", "e", "c", "i", "f",
          "y">>
      Select == <<"S", "e", "l", "e", "c", "t", ".", ".", ".">>
      Search_engine ==
        <<"S", "e", "a", "r", "c", "h", " ", "e", "n", "g", "i", "n", "e">>
      Other == <<"O", "t", "h", "e", "r">>
      Yes == <<"Y", "e", "s">>
      no == <<"n", "o">>
      No == <<"N", "o">>
      designer == <<"d", "e", "s", "i", "g", "n", "e", "r">>
      Designer == <<"D", "e", "s", "i", "g", "n", "e", "r">>
      Software_Engineer ==
        <<"S", "o", "f", "t", "w", "a", "r", "e", " ", "E", "n", "g", "i",
          "n", "e", "e", "r">>
      csrf == <<"c", "s", "r", "f">>
      hidden == <<"h", "i", "d", "d", "e", "n">>
      submit == <<"s", "u", "b", "m", "i", "t">>
      nickname == <<"n", "i", "c", "k", "n", "a", "m", "e">>
      ed == <<"e", "d">>
      div_ed == <<"d", "i", "v", "#", "e", "d">>
      apply == <<"a", "p", "p", "l", "y">>
      action ==
        <<"h", "t", "t", "p", "s", ":", "/", "/", "j", "o", "b", "s", ".",
          "e", "x", "a", "m", "p", "l", "e", "/", "a", "p", "p", "l", "y">>
      post == <<"p", "o", "s", "t">>
      plain(i) == LabelledInput(<<"t", "e", "x", "t">>, <<"q">> \o natToString(i),
                                <<"Q">> \o natToString(i))
      editable == [BlankNode EXCEPT !.tagName = <<"D", "I", "V">>, !.id = ed,
                                    !.contentEditable = TRUE, !.form = -1,
                                    !.cssPath = div_ed]
  IN
  [forms |-> <<[id |-> apply, name |-> apply, action |-> action, method |-> post]>>,
   nodes |->
     <<[BlankNode EXCEPT !.type = hidden, !.name = csrf, !.w = 0, !.h = 0],
       LabelledInput(<<"t", "e", "x", "t">>, first_name, First_Name),
       LabelledInput(<<"t", "e", "x", "t">>, last_name, Last_Name),
       LabelledInput(<<"e", "m", "a", "i", "l">>, <<"e", "m", "a", "i", "l">>, Email),
       LabelledInput(<<"f", "i", "l", "e">>, resume, Resume),
       LabelledSelect(<<"s", "o", "u", "r", "c", "e">>, How_did_you_hear,
                      <<Option(<<>>, Select), Option(<<"s", "e", "a", "r", "c", "h", "_", "e", "n", "g", "i", "n", "e">>, Search_engine),
                        Option(<<"o", "t", "h", "e", "r">>, Other)>>),
       LabelledSelect(<<"w", "o", "r", "k", "_", "a", "u", "t", "h", "o", "r", "i", "z", "a", "t", "i", "o", "n">>, Work_authorization,
                      <<Option(<<>>, Select), Option(Yes, Yes), Option(no, No)>>),
       LabelledSelect(<<"p", "o", "s", "i", "t", "i", "o", "n">>, Position,
                      <<Option(<<>>, Select), Option(designer, Designer),
                        Option(<<"s", "o", "f", "t", "w", "a", "r", "e", "_", "e", "n", "g", "i", "n", "e", "e", "r">>, Software_Engineer)>>),
       LabelledInput(<<"d", "a", "t", "e">>, start_date, Start_date),
       LabelledInput(<<"t", "e", "x", "t">>, <<"s", "p", "e", "c", "i", "f", "y">>, Please_specify),
       [BlankNode EXCEPT !.name = nickname, !.w = 0, !.h = 0]>>
     \o [i \in 1..NumPlainInputs |-> plain(i)]
     \o <<[BlankNode EXCEPT !.type = submit],
          editable, editable>>]

\* The three-field form of the specification's end-to-end scenario:
\* <input name="first_name">, <input name="last_name">,
\* <input type="email" name="email">, with no ids and no labels.
ContactPage ==
  LET
      first_name == <<"f", "i", "r", "s", "t", "_", "n", "a", "m", "e">>
      last_name == <<"l", "a", "s", "t", "_", "n", "a", "m", "e">>
      get == <<"g", "e", "t">>
      action ==
        <<"h", "t", "t", "p", "s", ":", "/", "/", "e", "x", "a", "m", "p",
          "l", "e", ".", "o", "r", "g", "/">>
      path ==
        <<"b", "o", "d", "y", ":", "n", "t", "h", "-", "o", "f", "-", "t",
          "y", "p", "e", "(", "1", ")", " ", ">", " ", "f", "o", "r", "m",
          ":", "n", "t", "h", "-", "o", "f", "-", "t", "y", "p", "e", "(",
          "1", ")", " ", ">", " ", "i", "n", "p", "u", "t", ":", "n", "t",
          "h", "-", "o", "f", "-", "t", "y", "p", "e", "(">>
      input(type, name, nth) ==
        [BlankNode EXCEPT !.type = type, !.name = name,
                          !.cssPath = path \o natToString(nth) \o <<")">>]
  IN
  [forms |-> <<[id |-> <<>>, name |-> <<>>, action |-> action, method |-> get]>>,
   nodes |-> <<input(<<>>, first_name, 1), input(<<>>, last_name, 2),
               input(<<"e", "m", "a", "i", "l">>, <<"e", "m", "a", "i", "l">>, 3)>>]

\* A page with nothing to fill: no form, one hidden input only.
EmptyPage ==
  [forms |-> <<>>,
   nodes |-> <<[BlankNode EXCEPT !.type = <<"h", "i", "d", "d", "e", "n">>,
                                 !.form = -1, !.w = 0, !.h = 0]>>]

Pages == <<ApplicationPage, ContactPage, EmptyPage>>

(***************************************************************************)
(* Suggestions.  One element of the array parsed from a model reply.  A    *)
(* string member that is absent is <<>> (absent and empty both fail the    *)
(* `item.x &&` tests); a number member is <<>> when absent and <<n>> when  *)
(* present; value is Null when null or undefined.  An element of the array *)
(* that is a number, a string or an array has no member at all; for the    *)
(* element null, on which every property access throws a TypeError, the    *)
(* flag null is set.                                                       *)
(***************************************************************************)
NoItem ==
  [key |-> <<>>, cssPath |-> <<>>, id |-> <<>>, name |-> <<>>, label |-> <<>>,
   formIndex |-> <<>>, orderWithinForm |-> <<>>, index |-> <<>>,
   value |-> Null, null |-> FALSE]

\* Array.prototype.findIndex, given the 1-based positions that satisfy the
\* test: the 0-based position of the first of them, or -1
firstIndex(hits) ==
  IF hits = {} THEN -1 ELSE (CHOOSE k \in hits : \A j \in hits : k <= j) - 1

\* the 0-based position of the last of them, or -1
lastIndex(hits) ==
  IF hits = {} THEN -1 ELSE (CHOOSE k \in hits : \A j \in hits : j <= k) - 1

(***************************************************************************)
(* Resolver: FormAnalyzer.resolveFieldIndex and the two maps that          *)
(* analyzeWithFullHtml builds for it.  A map lookup gives -1 when the map  *)
(* has no such entry.                                                      *)
(***************************************************************************)
\* new Map(fieldsJson.map((f, i) => [f.stableKey, i])).get(key): a later
\* descriptor with the same key replaces the earlier entry
fieldKeyToIndex(fieldsJson, key) ==
  lastIndex({k \in DOMAIN fieldsJson : fieldsJson[k].stableKey = key})

\* cssPathToIndex.get(path): set only if the path is not yet in the map
cssPathToIndex(fieldsJson, path) ==
  firstIndex({k \in DOMAIN fieldsJson :
                /\ fieldsJson[k].cssPath # <<>>
                /\ fieldsJson[k].cssPath = path})

\* a resolver that trusts the raw index before everything else
resolveFieldIndex_indexFirst(item, fieldsJson) ==
  IF /\ item.index # <<>>
     /\ item.index[1] >= 0
     /\ item.index[1] < Len(fieldsJson)
  THEN item.index[1]
  ELSE fieldKeyToIndex(fieldsJson, item.key)

resolveFieldIndex(item, fieldsJson) ==
  LET byKey   == fieldKeyToIndex(fieldsJson, item.key)
      byPath  == cssPathToIndex(fieldsJson, item.cssPath)
      byId    == firstIndex({k \in DOMAIN fieldsJson :
                               norm(fieldsJson[k].id) = norm(item.id)})
      byName  == firstIndex({k \in DOMAIN fieldsJson :
                               norm(fieldsJson[k].name) = norm(item.name)})
      byLabel == firstIndex({k \in DOMAIN fieldsJson :
                               norm(fieldsJson[k].label) = norm(item.label)})
      byOrder == firstIndex({k \in DOMAIN fieldsJson :
                               /\ <<fieldsJson[k].formIndex>> = item.formIndex
                               /\ <<fieldsJson[k].orderWithinForm>>
                                    = item.orderWithinForm})
      inRange == /\ item.index # <<>>
                 /\ item.index[1] >= 0
                 /\ item.index[1] < Len(fieldsJson)
  IN  IF item.key # <<>> /\ byKey # -1 THEN byKey
      ELSE IF item.cssPath # <<>> /\ byPath # -1 THEN byPath
      ELSE IF item.id # <<>> /\ byId # -1 THEN byId
      ELSE IF item.name # <<>> /\ byName # -1 THEN byName
      ELSE IF item.label # <<>> /\ byLabel # -1 THEN byLabel
      ELSE IF /\ item.formIndex # <<>>
              /\ item.orderWithinForm # <<>>
              /\ byOrder # -1 THEN byOrder
      ELSE IF inRange THEN item.index[1]
      ELSE -1

(***************************************************************************)
(* Batches: FormAnalyzer.analyzeWithFullHtml                               *)
(***************************************************************************)
batchSize == 24

\* fieldsWithOptions[i].isFile
isFile(page, elements, fieldsJson, i) ==
  LET node == page.nodes[elements[i + 1].element]
  IN  \/ /\ node.tagName = <<"I", "N", "P", "U", "T">>
         /\ toLowerCase(elementType(node)) = <<"f", "i", "l", "e">>
      \/ fieldsJson[i + 1].type = <<"f", "i", "l", "e">>

\* a slice that is one descriptor too long
chunk_overlong(page, elements, fieldsJson, start) ==
  {i \in start..(start + batchSize) :
     /\ i < Len(fieldsJson)
     /\ ~isFile(page, elements, fieldsJson, i)}

\* the indices of the descriptors in the prompt of the batch that begins at
\* start: fieldsWithOptions.slice(start, start + batchSize).filter(!isFile)
chunk(page, elements, fieldsJson, start) ==
  {i \in start..(start + batchSize - 1) :
     /\ i < Len(fieldsJson)
     /\ ~isFile(page, elements, fieldsJson, i)}

\* a variant of selectDefault that knows no default
selectDefault_none(node) == Null

\* the value the acceptance loop substitutes for a choice that is not among
\* the options of a <select>; Null when the suggestion is skipped
selectDefault(node) ==
  LET options == node.options
      valueOf(hits) ==
        IF hits = {} THEN Null ELSE options[firstIndex(hits) + 1].value
  IN  IF node.name = <<"s", "o", "u", "r", "c", "e">> \/ node.id = <<"s", "o", "u", "r", "c", "e">>
      THEN valueOf({o \in DOMAIN options :
                      options[o].value \in {<<"s", "e", "a", "r", "c", "h", "_", "e", "n", "g", "i", "n", "e">>, <<"o", "t", "h", "e", "r">>}})
      ELSE IF \/ node.name = <<"w", "o", "r", "k", "_", "a", "u", "t", "h", "o", "r", "i", "z", "a", "t", "i", "o", "n">>
              \/ node.id = <<"w", "o", "r", "k", "_", "a", "u", "t", "h", "o", "r", "i", "z", "a", "t", "i", "o", "n">>
      THEN valueOf({o \in DOMAIN options :
                      normOption(options[o].value) = <<"y", "e", "s">>})
      ELSE IF node.name = <<"p", "o", "s", "i", "t", "i", "o", "n">> \/ node.id = <<"p", "o", "s", "i", "t", "i", "o", "n">>
      THEN LET se == {o \in DOMAIN options :
                        normOption(options[o].value) = <<"s", "o", "f", "t", "w", "a", "r", "e", "_", "e", "n", "g", "i", "n", "e", "e", "r">>}
           IN  IF se # {} THEN valueOf(se)
               ELSE valueOf({o \in DOMAIN options : options[o].value # <<>>})
      ELSE Null

\* An entry of identifiedFields: the collected field (element and index),
\* the value to write and the included flag.  run and batch are history:
\* the run that pushed the entry and the batch whose reply it came from
\* (-1 for an entry of the default backfill).
Entry(field, index, value, run, batch) ==
  [element |-> field.element, index |-> index,
   isContentEditable |-> field.isContentEditable,
   suggestedValue |-> value, included |-> TRUE, run |-> run, batch |-> batch]

\* a variant of usedIndicesHas that finds no index claimed
usedIndicesHas_never(usedIndices, resolvedIdx) == FALSE

\* usedIndices.has(resolvedIdx)
usedIndicesHas(usedIndices, resolvedIdx) == resolvedIdx \in usedIndices

\* the body of parsed.forEach for one item; acc is
\* [identifiedFields, usedIndices, discarded, threw], where discarded is
\* history: the number of items dropped because their field was already
\* claimed, and threw is set by the TypeError of `item.key` (line 1322) on
\* the item null
acceptItem(acc, item, page, elements, fieldsJson, run, start) ==
  LET hasOption(node, wanted) ==
        \E o \in DOMAIN node.options :
          \/ normOption(node.options[o].value) = wanted
          \/ normOption(node.options[o].text) = wanted
      push(field, resolvedIdx, chosen) ==
        IF chosen = Null THEN acc
        ELSE [acc EXCEPT
                !.identifiedFields =
                   Append(@, Entry(field, resolvedIdx, <<>> \o trim(chosen),
                                   run, start)),
                !.usedIndices = @ \cup {resolvedIdx}]
      choose(field, node, resolvedIdx, value) ==
        push(field, resolvedIdx,
             IF node.tagName = <<"S", "E", "L", "E", "C", "T">> /\ ~hasOption(node, normOption(value))
             THEN selectDefault(node)
             ELSE item.value)
      accept(resolvedIdx) ==
        IF resolvedIdx = -1 THEN acc
        ELSE IF usedIndicesHas(acc.usedIndices, resolvedIdx)
             THEN [acc EXCEPT !.discarded = @ + 1]
        ELSE IF item.value = Null THEN acc
        ELSE IF trim(item.value) = <<>> THEN acc
        ELSE choose(elements[resolvedIdx + 1],
                    page.nodes[elements[resolvedIdx + 1].element],
                    resolvedIdx, trim(item.value))
  IN  IF item.null THEN [acc EXCEPT !.threw = TRUE]
      ELSE accept(resolveFieldIndex(item, fieldsJson))

\* parsed.forEach(...) over the items from position k on; an exception
\* ends it
RECURSIVE acceptItems(_, _, _, _, _, _, _, _)
acceptItems(acc, items, k, page, elements, fieldsJson, run, start) ==
  IF k > Len(items) \/ acc.threw THEN acc
  ELSE acceptItems(acceptItem(acc, items[k], page, elements, fieldsJson, run, start),
                   items, k + 1, page, elements, fieldsJson, run, start)

(***************************************************************************)
(* Default backfill: FormAnalyzer.addMissingDefaults                       *)
(***************************************************************************)
\* hasIdx(i): some entry of identifiedFields holds the element of field i
hasIdx(fields, elements, i) ==
  \E e \in DOMAIN fields : fields[e].element = elements[i + 1].element

\* the tagName of the element of the descriptor at position k
tagNameAt(page, elements, fieldsJson, k) ==
  page.nodes[elements[fieldsJson[k].index + 1].element].tagName

\* one step of the backfill: when the field idx exists, has no entry yet and
\* a default value was found (not Null), push the default entry
pushDefault(acc, elements, idx, value, run) ==
  IF idx = -1 THEN acc
  ELSE IF hasIdx(acc.identifiedFields, elements, idx) THEN acc
  ELSE IF value = Null THEN acc
  ELSE [identifiedFields |->
          Append(acc.identifiedFields,
                 Entry(elements[idx + 1], idx, value, run, -1)),
        usedIndices |-> acc.usedIndices \cup {idx}]

\* options.find(first test) || options.find(second test) || ...: the value
\* of the first option of the first non-empty set of positions, or Null
firstOptionValue(options, hitSets) ==
  LET found == {h \in DOMAIN hitSets : hitSets[h] # {}}
  IN  IF found = {} THEN Null
      ELSE options[firstIndex(hitSets[firstIndex(found) + 1]) + 1].value

sourceDefault(options) ==
  firstOptionValue(options,
    <<{o \in DOMAIN options : options[o].value = <<"s", "e", "a", "r", "c", "h", "_", "e", "n", "g", "i", "n", "e">>},
      {o \in DOMAIN options : options[o].value = <<"o", "t", "h", "e", "r">>},
      {o \in DOMAIN options : options[o].value # <<>>}>>)

\* options.find(o => /yes/i.test(o.value) || /yes/i.test(o.text)) || options[0]
workAuthorizationDefault(options) ==
  firstOptionValue(options,
    <<{o \in DOMAIN options :
         \/ Includes(toLowerCase(options[o].value), <<"y", "e", "s">>)
         \/ Includes(toLowerCase(options[o].text), <<"y", "e", "s">>)},
      DOMAIN options>>)

\* over the options that have a value:
\* options.find(o => o.value === 'software_engineer') || options[0]
positionDefault(options) ==
  firstOptionValue(options,
    <<{o \in DOMAIN options : options[o].value = <<"s", "o", "f", "t", "w", "a", "r", "e", "_", "e", "n", "g", "i", "n", "e", "e", "r">>},
      {o \in DOMAIN options : options[o].value # <<>>}>>)

addMissingDefaults(acc, page, elements, fieldsJson, run) ==
  LET named(k, lit) == fieldsJson[k].name = lit \/ fieldsJson[k].id = lit
      isSelect(k) == tagNameAt(page, elements, fieldsJson, k) = <<"S", "E", "L", "E", "C", "T">>
      optionsAt(idx) == page.nodes[elements[idx + 1].element].options
      sourceIdx ==
        firstIndex({k \in DOMAIN fieldsJson :
          /\ \/ named(k, <<"s", "o", "u", "r", "c", "e">>)
             \/ Includes(toLowerCase(fieldsJson[k].label),
                         <<"h", "o", "w", " ", "d", "i", "d", " ", "y", "o", "u", " ", "h", "e", "a", "r">>)
          /\ isSelect(k)})
      specifyIdx ==
        firstIndex({k \in DOMAIN fieldsJson :
          /\ \/ named(k, <<"s", "p", "e", "c", "i", "f", "y">>)
             \/ Includes(toLowerCase(fieldsJson[k].label), <<"s", "p", "e", "c", "i", "f", "y">>)
          /\ toLowerCase(tagNameAt(page, elements, fieldsJson, k))
               = <<"i", "n", "p", "u", "t">>})
      workIdx ==
        firstIndex({k \in DOMAIN fieldsJson :
          named(k, <<"w", "o", "r", "k", "_", "a", "u", "t", "h", "o", "r", "i", "z", "a", "t", "i", "o", "n">>) /\ isSelect(k)})
      positionIdx ==
        firstIndex({k \in DOMAIN fieldsJson :
          named(k, <<"p", "o", "s", "i", "t", "i", "o", "n">>) /\ isSelect(k)})
      a1 == pushDefault(acc, elements, sourceIdx,
                        IF sourceIdx = -1 THEN Null
                        ELSE sourceDefault(optionsAt(sourceIdx)), run)
      a2 == pushDefault(a1, elements, specifyIdx, <<"N", "/", "A">>, run)
      a3 == pushDefault(a2, elements, workIdx,
                        IF workIdx = -1 THEN Null
                        ELSE workAuthorizationDefault(optionsAt(workIdx)), run)
  IN  pushDefault(a3, elements, positionIdx,
                  IF positionIdx = -1 THEN Null
                  ELSE positionDefault(optionsAt(positionIdx)), run)

(***************************************************************************)
(* Writing into controls: FormAnalyzer.fillField / clearField              *)
(***************************************************************************)
DaysInMonth(year, month) ==
  IF month \in {4, 6, 9, 11} THEN 30
  ELSE IF month # 2 THEN 31
  ELSE IF year % 400 = 0 \/ (year % 4 = 0 /\ year % 100 # 0) THEN 29
  ELSE 28

\* what a date control keeps of an assigned string: the string when it is a
\* valid date, otherwise the empty string (the value sanitisation that the
\* assignment `element.value = dateValue` triggers)
ValidDateString(v) ==
  /\ IsoShape(v)
  /\ LET year  == DecimalValue(SubSeq(v, 1, 4))
         month == DecimalValue(SubSeq(v, 6, 7))
         day   == DecimalValue(SubSeq(v, 9, 10))
     IN  /\ year > 0
         /\ month \in 1..12
         /\ day \in 1..DaysInMonth(year, month)

\* the option fillField selects for a value: an exact match on value or
\* text first, then the first option that contains or is contained in the
\* value; 0 when there is none
matchedOption(options, value) ==
  LET isExact(valueLower, optionValue, optionText) ==
        optionValue = valueLower \/ optionText = valueLower
      isPartial(valueLower, optionValue, optionText) ==
        \/ Includes(optionValue, valueLower)
        \/ Includes(optionText, valueLower)
        \/ Includes(valueLower, optionValue)
        \/ Includes(valueLower, optionText)
      find(exact, partial) ==
        IF exact # {} THEN firstIndex(exact) + 1
        ELSE firstIndex(partial) + 1
      match(valueLower) ==
        find({o \in DOMAIN options :
                isExact(valueLower, toLowerCase(options[o].value),
                        toLowerCase(options[o].text))},
             {o \in DOMAIN options :
                isPartial(valueLower, toLowerCase(options[o].value),
                          toLowerCase(options[o].text))})
  IN  match(trim(toLowerCase(value)))

\* fillField(element, value, isContentEditable) on a control that holds
\* old: the content after the call (value), the string the code assigned
\* (assigned, Null when it assigned nothing), whether the assignment threw
\* (a file input accepts only the empty string) and whether the input and
\* change events were dispatched.
fillField(node, value, isContentEditable, old, today, parsed) ==
  IF isContentEditable
  THEN [value |-> value, assigned |-> value, threw |-> FALSE, dispatched |-> TRUE]
  ELSE IF node.tagName = <<"S", "E", "L", "E", "C", "T">>
  THEN LET select(m) ==
             IF m # 0
             THEN [value |-> node.options[m].value,
                   assigned |-> node.options[m].value,
                   threw |-> FALSE, dispatched |-> TRUE]
             ELSE [value |-> old, assigned |-> Null,
                   threw |-> FALSE, dispatched |-> TRUE]
       IN  select(matchedOption(node.options, value))
  ELSE IF elementType(node) = <<"d", "a", "t", "e">>
  THEN LET assign(dateValue) ==
             IF dateValue # Null /\ dateValue # <<>>
             THEN [value |-> IF ValidDateString(dateValue) THEN dateValue
                             ELSE <<>>,
                   assigned |-> dateValue, threw |-> FALSE, dispatched |-> TRUE]
             ELSE [value |-> old, assigned |-> Null,
                   threw |-> FALSE, dispatched |-> FALSE]
       IN  assign(sanitizeDateValue(value, today, parsed))
  ELSE IF elementType(node) = <<"f", "i", "l", "e">> /\ value # <<>>
  THEN [value |-> old, assigned |-> value, threw |-> TRUE, dispatched |-> FALSE]
  ELSE [value |-> value, assigned |-> value, threw |-> FALSE, dispatched |-> TRUE]

(***************************************************************************)
(* Model replies.  The text of a reply is represented by what the array    *)
(* scan of parseArrayFromText sees in it: whether it holds a '[' at all    *)
(* and the complete JSON objects that follow it.                           *)
(***************************************************************************)
Text(objects) == [bracket |-> TRUE, objects |-> objects]

\* a reply with no array in it
Prose == [bracket |-> FALSE, objects |-> <<>>]

\* FormAnalyzer.parseArrayFromText on a string reply: the direct parse and
\* the object-by-object scan both give the objects of the array; a text
\* without '[' gives []
parseArrayFromText(input) ==
  IF input.bracket THEN input.objects ELSE <<>>

\* a suggestion that follows the prompt's output contract for field i
Suggest(fieldsJson, i, value) ==
  [NoItem EXCEPT !.key = fieldsJson[i + 1].stableKey, !.index = <<i>>,
                 !.value = value]

\* The replies the gateway can give to the prompt of the batch that begins
\* at start:
\*  - one that follows the contract: a value for the first field of the
\*    chunk and a choice that is not an option for every <select> in it;
\*  - one that strays from it: a suggestion by index for field 0, one by
\*    index for every file input of the page, and a blank value for the
\*    first field of the chunk;
\*  - prose.
replyTexts(page, elements, fieldsJson, start) ==
  LET least(inChunk) ==
        IF inChunk = {} THEN <<>>
        ELSE <<CHOOSE i \in inChunk : \A j \in inChunk : i <= j>>
      selectsOf(inChunk) ==
        SortedSeq({i \in inChunk :
                     page.nodes[elements[i + 1].element].tagName = <<"S", "E", "L", "E", "C", "T">>})
      followed(first, selects) ==
        [k \in DOMAIN first |->
           Suggest(fieldsJson, first[k], <<"M", "e", "r", "r", "y">>)]
        \o [k \in DOMAIN selects |->
              Suggest(fieldsJson, selects[k], <<"m", "a", "y", "b", "e">>)]
      strayed(first, files) ==
        <<[NoItem EXCEPT !.index = <<0>>, !.value = <<"x">>]>>
        \o [k \in DOMAIN files |->
              [NoItem EXCEPT !.index = <<files[k]>>,
                             !.value = <<"c", "v", ".", "p", "d", "f">>]]
        \o [k \in DOMAIN first |-> Suggest(fieldsJson, first[k], <<" ", " ">>)]
      texts(first, selects, files) ==
        {Text(followed(first, selects)), Text(strayed(first, files)), Prose}
      answers(inChunk) ==
        texts(least(inChunk), selectsOf(inChunk),
              SortedSeq({i \in 0..(Len(fieldsJson) - 1) :
                           isFile(page, elements, fieldsJson, i)}))
  IN  answers(chunk(page, elements, fieldsJson, start))

\* What processFormFilling finds on each page: the collected elements and
\* their descriptors, and per batch (batch b begins at (b - 1) * batchSize)
\* the descriptors listed in its prompt and the replies to it.  The DOM
\* structure does not change while the content script runs.
Collected ==
  <<>> \o [p \in DOMAIN Pages |->
    LET batched(page, elements, fieldsJson, batches) ==
          [page       |-> page,
           elements   |-> elements,
           fieldsJson |-> fieldsJson,
           chunks     |-> <<>> \o [b \in batches |->
                            chunk(page, elements, fieldsJson,
                                  (b - 1) * batchSize)],
           replies    |-> <<>> \o [b \in batches |->
                            replyTexts(page, elements, fieldsJson,
                                       (b - 1) * batchSize)]]
        described(page, elements, fieldsJson) ==
          batched(page, elements, fieldsJson,
                  1..((Len(fieldsJson) + batchSize - 1) \div batchSize))
        collected(page, elements) ==
          described(page, elements, createFieldsJson(page, elements))
        visit(page) == collected(page, collectAllFormElements(page))
    IN  visit(Pages[p])]

(***************************************************************************)
(* Bounds of the environment                                               *)
(***************************************************************************)
\* fillForms requests the popup sends
MaxFillRequests == 2

\* fillForms requests the popup sends when the page may be the long one
MaxBatchRequests == 1

\* clicks on the Cancel button of the loading overlay
MaxCancelClicks == 1

RunIds ==
  1..(IF MaxFillRequests > MaxBatchRequests THEN MaxFillRequests
      ELSE MaxBatchRequests)

\* today.toISOString().split('T')[0]
Today == <<"2", "0", "2", "4", "-", "0", "1", "-", "1", "5">>

Cancelled == "Cancelled by user"

NoValidData == "AI returned no valid data"

(***************************************************************************)
(* State                                                                   *)
(***************************************************************************)
VARIABLES
  tab,              \* the page of the tab (its position in Pages)
  isProcessing,     \* FormAnalyzer.isProcessing
  isCancelled,      \* FormAnalyzer.isCancelled
  currentSessionId, \* FormAnalyzer.currentSessionId; 0 is null, n is "s<n>"
  identifiedFields, \* FormAnalyzer.identifiedFields
  fieldOverlays,    \* the number of overlays in FormAnalyzer.fieldOverlays
  tracking,         \* updateOverlayPositionsBound is set
  seq,              \* AIBridge.seq; request m<n> is n
  pending,          \* the keys of AIBridge.pending
  injected,         \* AIBridge.injected
  loadingOverlay,   \* #aiLoadingOverlay is in the document
  actionPanels,     \* the number of .ai-action-panel elements
  controls,         \* what each element of the page holds
  runs,             \* the calls of processFormFilling, in order of start
  cancels,          \* the requests awaited by calls of cancelProcessing
  wq,               \* window messages posted and not yet dispatched
  scriptLoaded,     \* injected.js has run in the page
  sessions,         \* the keys of the gateway's sessions map
  sidCounter,       \* the gateway's sidCounter
  fetches,          \* the gateway's fetch calls in flight
  alerts,           \* the alert() boxes shown so far
  completes,        \* processingComplete messages sent to the popup
  uncaught,         \* calls of processFormFilling that ended by an exception
  fillsLeft,        \* fillForms requests the popup has yet to send
  clicks,           \* clicks on Cancel
  dateSuggested,    \* the suggestion for the date control
  dateParsed,       \* what new Date(dateSuggested) gives
  dateControl,      \* what the date control holds
  dateAssigned,     \* the string assigned to the date control (Null: none)
  datePc,           \* start, then filled or skipped
  rsKeyOf,          \* the field whose stableKey the suggestion carries
  rsOther,          \* the field its other member points to
  rsItem,           \* the suggestion
  rsResult,         \* what resolveFieldIndex returned
  rsPc,             \* start, then done
  callInput,        \* the argument of a function called on its own
  callResult,       \* what the function gave
  callPc            \* start, then returned or threw

contentVars ==
  <<isProcessing, isCancelled, currentSessionId, identifiedFields,
    fieldOverlays, tracking, seq, pending, injected, loadingOverlay,
    actionPanels, controls, runs, cancels, wq, alerts, completes, uncaught>>

gatewayVars == <<scriptLoaded, sessions, sidCounter, fetches>>

dateVars == <<dateSuggested, dateParsed, dateControl, dateAssigned, datePc>>

resolveVars == <<rsKeyOf, rsOther, rsItem, rsResult, rsPc>>

callVars == <<callInput, callResult, callPc>>

\* the variables of the checks of single functions
harnessVars == <<dateVars, resolveVars, callVars>>

vars ==
  <<tab, contentVars, gatewayVars, fillsLeft, clicks, harnessVars>>

\* A call of processFormFilling.  pc is the await it is suspended at;
\* waitId the request it awaits; sessionId and start the locals of
\* analyzeWithFullHtml; usedIndices its usedIndices set.  The other fields
\* are history: the batches whose PROMPT was posted (sent) and the indices
\* of the descriptors in each of these prompts (prompts), the batches whose
\* round trip failed or gave nothing parsable (failed), the number of
\* suggestions accepted from replies, whether Cancel was clicked while the
\* call was under way and whether it posted a PROMPT after that, the message
\* of the error processFormFilling caught, what the final check of
\* analyzeWithFullHtml found, whether the call reached createOverlays, and
\* whether the destroy of its finally block was rejected.
IdleRun ==
  [pc |-> "idle", waitId |-> 0, sessionId |-> 0, start |-> 0,
   usedIndices |-> {}, sent |-> {}, prompts |-> <<>>, failed |-> {},
   accepted |-> 0,
   discarded |-> 0,
   cancelled |-> FALSE, promptedAfterCancel |-> FALSE, error |-> "",
   outcome |-> "none", overlaid |-> FALSE, cleanupFailed |-> FALSE]

Active(run) == run.pc \notin {"idle", "done"}

\* the content-script side of the state as one record, so that the
\* continuations that run in one task can be composed
Store ==
  [isProcessing |-> isProcessing, isCancelled |-> isCancelled,
   currentSessionId |-> currentSessionId,
   identifiedFields |-> identifiedFields, fieldOverlays |-> fieldOverlays,
   tracking |-> tracking, seq |-> seq, pending |-> pending,
   injected |-> injected, loadingOverlay |-> loadingOverlay,
   actionPanels |-> actionPanels, controls |-> controls, runs |-> runs,
   cancels |-> cancels, wq |-> wq, alerts |-> alerts,
   completes |-> completes, uncaught |-> uncaught,
   collected |-> Collected[tab]]

Commit(s) ==
  /\ isProcessing' = s.isProcessing
  /\ isCancelled' = s.isCancelled
  /\ currentSessionId' = s.currentSessionId
  /\ identifiedFields' = s.identifiedFields
  /\ fieldOverlays' = s.fieldOverlays
  /\ tracking' = s.tracking
  /\ seq' = s.seq
  /\ pending' = s.pending
  /\ injected' = s.injected
  /\ loadingOverlay' = s.loadingOverlay
  /\ actionPanels' = s.actionPanels
  /\ controls' = s.controls
  /\ runs' = s.runs
  /\ cancels' = s.cancels
  /\ wq' = s.wq
  /\ alerts' = s.alerts
  /\ completes' = s.completes
  /\ uncaught' = s.uncaught

(***************************************************************************)
(* Window messages                                                         *)
(***************************************************************************)
\* a request posted by AIBridge.post; for a PROMPT, the prompt is stated by
\* the batch it describes (start) and the descriptors it lists (fields)
Request(id, type, sessionId, start, fields) ==
  [kind |-> "request", id |-> id, type |-> type, sessionId |-> sessionId,
   start |-> start, fields |-> fields, text |-> Prose, error |-> ""]

\* reply(id, payload, error) of the gateway; error is "" when it is absent
Reply(id, sessionId, text, error) ==
  [kind |-> "reply", id |-> id, type |-> "", sessionId |-> sessionId,
   start |-> -1, fields |-> {}, text |-> text, error |-> error]

\* window.postMessage of a reply onto the queue q.  AIBridge.onMessage drops
\* a reply whose id has no pending entry, whatever the reply holds, and an
\* id that left the map never returns to it: such a reply is not queued.
postReply(q, stillPending, m) ==
  IF m.id \in stillPending THEN Append(q, m) ELSE q

\* AIBridge.post: the request is registered, posted, and awaited by the
\* caller; the new id is the seq of the result
post(s, type, sessionId, start, fields) ==
  [s EXCEPT !.seq = @ + 1,
            !.pending = @ \cup {s.seq + 1},
            !.wq = Append(@, Request(s.seq + 1, type, sessionId, start, fields))]

(***************************************************************************)
(* Overlays: FormAnalyzer.createOverlays / clearOverlays                   *)
(***************************************************************************)
\* identifiedFields.forEach of createOverlays from entry k on, then the
\* action panel and the tracking; an exception of fillField ends the call.
\* No suggested value of a run is a string that the Date constructor
\* parses.
RECURSIVE createOverlaysFrom(_, _)
createOverlaysFrom(s, k) ==
  IF k > Len(s.identifiedFields)
  THEN [s EXCEPT !.actionPanels =
                    IF Len(s.identifiedFields) > 0 THEN @ + 1 ELSE @,
                 !.tracking = TRUE]
  ELSE LET field == s.identifiedFields[k]
           s1    == [s EXCEPT !.fieldOverlays = @ + 1]
           filled(res) ==
             IF res.threw
             THEN [s1 EXCEPT !.uncaught = @ + 1]
             ELSE createOverlaysFrom(
                    [s1 EXCEPT !.controls[field.element] = res.value],
                    k + 1)
       IN  IF field.included /\ field.suggestedValue # <<>>
           THEN filled(fillField(s.collected.page.nodes[field.element],
                                 field.suggestedValue, field.isContentEditable,
                                 s.controls[field.element], Today, Null))
           ELSE createOverlaysFrom(s1, k + 1)

createOverlays(s) == createOverlaysFrom(s, 1)

\* clearOverlays(false): tracking stopped, every overlay of fieldOverlays
\* and the first action panel removed, identifiedFields emptied
clearOverlays(s) ==
  [s EXCEPT !.tracking = FALSE,
            !.fieldOverlays = 0,
            !.actionPanels = IF @ > 0 THEN @ - 1 ELSE 0,
            !.identifiedFields = <<>>]

\* a clearField that leaves the control as it is
clearField_kept(node, isContentEditable, old) == old

\* clearField(element, isContentEditable): the content of the control after
\* the call; the text content or the value is the empty string
clearField(node, isContentEditable, old) == <<>>

\* toggleField(index), called by the toggle button of overlay index, on the
\* entries s.identifiedFields and the controls s.controls of the page: the
\* flag is flipped first, then the control is written or cleared; an
\* exception of fillField leaves the handler (s.uncaught counts them)
toggleField(s, index, page) ==
  LET field == s.identifiedFields[index + 1]
      node == page.nodes[field.element]
      flipped == [s EXCEPT !.identifiedFields[index + 1].included = ~@]
      filled(res) ==
        IF res.threw THEN [flipped EXCEPT !.uncaught = @ + 1]
        ELSE [flipped EXCEPT !.controls[field.element] = res.value]
  IN  IF ~field.included
      THEN filled(fillField(node, field.suggestedValue,
                            field.isContentEditable,
                            s.controls[field.element], Today, Null))
      ELSE [flipped EXCEPT !.controls[field.element] =
                              clearField(node, field.isContentEditable, @)]

(***************************************************************************)
(* FormAnalyzer.processFormFilling and analyzeWithFullHtml, cut at their   *)
(* awaits.  Each operator takes the store and the call r and gives the     *)
(* store at the next await of r (or at its end).                           *)
(***************************************************************************)
\* an end of processFormFilling that forgets to reset isProcessing
finallyTail_processing(s, r) ==
  [s EXCEPT !.loadingOverlay = FALSE,
            !.completes = @ + 1,
            !.runs[r].pc = "done",
            !.runs[r].waitId = 0]

\* the end of processFormFilling: lines 724-726 and 736-739
finallyTail(s, r) ==
  LET s1 == [s EXCEPT !.loadingOverlay = FALSE,
                      !.isProcessing = FALSE,
                      !.completes = @ + 1,
                      !.runs[r].pc = "done",
                      !.runs[r].waitId = 0]
  IN  IF ~s1.isCancelled
      THEN createOverlays([s1 EXCEPT !.runs[r].overlaid = TRUE])
      ELSE s1

\* the finally block: lines 714-723
finally(s, r) ==
  IF s.currentSessionId # 0
  THEN LET s1 == post(s, "DESTROY", s.currentSessionId, -1, {})
       IN  [s1 EXCEPT !.runs[r].pc = "destroy", !.runs[r].waitId = s1.seq]
  ELSE finallyTail(s, r)

\* the catch block: lines 707-713
catch(s, r, message) ==
  finally([s EXCEPT !.runs[r].error = message,
                    !.alerts = IF message = Cancelled THEN @
                               ELSE @ \cup {[text |-> "AI processing failed: ",
                                             message |-> message]}],
          r)

\* a variant of resumeDestroy without the try/catch around the destroy: a
\* rejection leaves the finally block
resumeDestroy_uncaught(s, r, result) ==
  IF result.error # ""
  THEN [s EXCEPT !.runs[r].cleanupFailed = TRUE,
                 !.runs[r].pc = "done",
                 !.runs[r].waitId = 0,
                 !.uncaught = @ + 1]
  ELSE finallyTail([s EXCEPT !.currentSessionId = 0], r)

\* after `await this.aiBridge.destroy(...)` of the finally block, whether
\* it was fulfilled or rejected (lines 717-722: the rejection is caught and
\* logged)
resumeDestroy(s, r, result) ==
  finallyTail([s EXCEPT !.currentSessionId = 0,
                        !.runs[r].cleanupFailed = (result.error # "")],
              r)

\* a variant of noValidData that lets an empty result pass
noValidData_never(fields) == FALSE

\* line 1308: !this.identifiedFields.length
noValidData(fields) == Len(fields) = 0

\* lines 1305-1310: the backfill and the final check; the outcome of a run
\* is history: whether identifiedFields was empty after the backfill
afterBatches(s, r) ==
  LET checked(acc) ==
        IF noValidData(acc.identifiedFields)
        THEN catch([s EXCEPT !.identifiedFields = acc.identifiedFields,
                             !.runs[r].usedIndices = acc.usedIndices,
                             !.runs[r].outcome =
                                IF Len(acc.identifiedFields) = 0
                                THEN "empty" ELSE "filled"],
                   r, NoValidData)
        ELSE finally([s EXCEPT !.identifiedFields = acc.identifiedFields,
                               !.runs[r].usedIndices = acc.usedIndices,
                               !.runs[r].outcome =
                                  IF Len(acc.identifiedFields) = 0
                                  THEN "empty" ELSE "filled"],
                     r)
  IN  checked(addMissingDefaults(
                [identifiedFields |-> s.identifiedFields,
                 usedIndices |-> s.runs[r].usedIndices],
                s.collected.page, s.collected.elements,
                s.collected.fieldsJson, r))

\* the head of the batch loop (lines 1172-1235) for the batch at start
batchStart(s, r, start) ==
  IF start >= Len(s.collected.fieldsJson) THEN afterBatches(s, r)
  ELSE IF s.isCancelled THEN catch(s, r, Cancelled)
  ELSE LET s1 == post(s, "PROMPT", s.runs[r].sessionId, start,
                      s.collected.chunks[(start \div batchSize) + 1])
       IN  [s1 EXCEPT !.runs[r].pc = "prompt",
                      !.runs[r].waitId = s1.seq,
                      !.runs[r].start = start,
                      !.runs[r].sent = @ \cup {start},
                      !.runs[r].prompts =
                         Append(@, s1.wq[Len(s1.wq)].fields),
                      !.runs[r].promptedAfterCancel =
                         @ \/ s.runs[r].cancelled]

\* a variant of rethrown that ends the batch loop on every error
rethrown_always(message) == TRUE

\* the catch block of a batch, line 1299:
\* if (e.message === "Cancelled by user") throw e
rethrown(message) == message = Cancelled

\* after `await this.aiBridge.prompt(...)`: lines 1236-1302; the batches a
\* run has in failed are those whose prompt was rejected with another
\* error than the cancellation, whose reply held no suggestion, or whose
\* reply held a null on which the loop over the items threw
resumePrompt(s, r, result) ==
  LET start == s.runs[r].start
      accepted(parsed, acc) ==
        [s EXCEPT !.identifiedFields = acc.identifiedFields,
                  !.runs[r].usedIndices = acc.usedIndices,
                  !.runs[r].accepted =
                     @ + Len(acc.identifiedFields) - Len(s.identifiedFields),
                  !.runs[r].discarded = acc.discarded,
                  !.runs[r].failed =
                     IF Len(parsed) = 0 \/ acc.threw THEN @ \cup {start}
                     ELSE @]
      handled(parsed) ==
        accepted(parsed,
                 acceptItems([identifiedFields |-> s.identifiedFields,
                              usedIndices |-> s.runs[r].usedIndices,
                              discarded |-> s.runs[r].discarded,
                              threw |-> FALSE],
                             parsed, 1, s.collected.page, s.collected.elements,
                             s.collected.fieldsJson, r, start))
      failed == [s EXCEPT !.runs[r].failed =
                            IF result.error = Cancelled THEN @
                            ELSE @ \cup {start}]
  IN  IF result.error # "" /\ rethrown(result.error)
      THEN catch(failed, r, result.error)
      ELSE batchStart(IF result.error = ""
                      THEN handled(parseArrayFromText(result.text))
                      ELSE failed,
                      r, start + batchSize)

\* after `await this.aiBridge.createSession(...)`: lines 697-705 and the
\* head of analyzeWithFullHtml
resumeCreateSession(s, r, result) ==
  LET s1 == [s EXCEPT !.currentSessionId = result.sessionId,
                      !.runs[r].sessionId = result.sessionId]
  IN  IF result.error # "" \/ result.sessionId = 0 \/ s.isCancelled
      THEN catch(IF result.error # "" THEN s ELSE s1, r,
                 IF result.error # "" THEN result.error
                 ELSE IF result.sessionId = 0
                 THEN "Failed to create session, no sessionId returned."
                 ELSE Cancelled)
      ELSE batchStart(s1, r, 0)

\* cancelProcessing after `await this.aiBridge.destroy(...)`: lines 652-658
resumeCancel(s, id) ==
  [s EXCEPT !.cancels = @ \ {id},
            !.currentSessionId = 0,
            !.loadingOverlay = FALSE,
            !.isProcessing = FALSE,
            !.completes = @ + 1]

\* the call of processFormFilling that awaits request id, if any
awaiting(s, id) ==
  {r \in RunIds : /\ s.runs[r].waitId = id
                  /\ s.runs[r].pc \in {"createSession", "prompt", "destroy"}}

\* a promise that is settled without anyone going on
settle_lost(s, id, result) == s

\* the promise of request id is settled with result: whoever awaits it
\* goes on
settle(s, id, result) ==
  IF id \in s.cancels THEN resumeCancel(s, id)
  ELSE IF awaiting(s, id) = {} THEN s
  ELSE LET r == CHOOSE w \in awaiting(s, id) : TRUE
       IN  IF s.runs[r].pc = "createSession"
           THEN resumeCreateSession(s, r, result)
           ELSE IF s.runs[r].pc = "prompt" THEN resumePrompt(s, r, result)
           ELSE resumeDestroy(s, r, result)

\* the type of the request with this id, from who awaits it
requestType(s, id) ==
  IF id \in s.cancels \/ \E r \in awaiting(s, id) : s.runs[r].pc = "destroy"
  THEN "DESTROY"
  ELSE IF \E r \in awaiting(s, id) : s.runs[r].pc = "prompt" THEN "PROMPT"
  ELSE "CREATE_SESSION"

\* AIBridge.cancelAllPending rejects the pending promises in the order of
\* the map; the continuations then run in the order of the microtask
\* queue: one that awaits createSession or destroy directly is two
\* reactions away from the rejected promise, processFormFilling awaiting
\* analyzeWithFullHtml awaiting prompt is three away
wakeOrder(s, woken) ==
  SortedSeq({id \in woken : requestType(s, id) # "PROMPT"})
  \o SortedSeq({id \in woken : requestType(s, id) = "PROMPT"})

RECURSIVE rejectAll(_, _, _)
rejectAll(s, ids, k) ==
  IF k > Len(ids) THEN s
  ELSE rejectAll(settle(s, ids[k], Reply(ids[k], 0, Prose, Cancelled)),
                 ids, k + 1)

(***************************************************************************)
(* Initial state: the content script has been constructed in a tab         *)
(***************************************************************************)
InitContent ==
  /\ isProcessing = FALSE
  /\ isCancelled = FALSE
  /\ currentSessionId = 0
  /\ identifiedFields = <<>>
  /\ fieldOverlays = 0
  /\ tracking = FALSE
  /\ seq = 0
  /\ pending = {}
  /\ injected = FALSE
  /\ loadingOverlay = FALSE
  /\ actionPanels = 0
  /\ controls = [n \in DOMAIN Collected[tab].page.nodes |-> <<>>]
  /\ runs = [r \in RunIds |-> IdleRun]
  /\ cancels = {}
  /\ wq = <<>>
  /\ alerts = {}
  /\ completes = 0
  /\ uncaught = 0
  /\ clicks = 0

InitGateway ==
  /\ scriptLoaded = FALSE
  /\ sessions = {}
  /\ sidCounter = 0
  /\ fetches = {}

\* no date suggestion is under way
InitDateIdle ==
  /\ dateSuggested = <<>>
  /\ dateParsed = Null
  /\ dateControl = <<>>
  /\ dateAssigned = Null
  /\ datePc = "idle"

\* no resolution is under way
InitResolveIdle ==
  /\ rsKeyOf = -1
  /\ rsOther = -1
  /\ rsItem = NoItem
  /\ rsResult = -1
  /\ rsPc = "idle"

\* no function is called on its own
InitCallIdle ==
  /\ callInput = Null
  /\ callResult = <<>>
  /\ callPc = "idle"

\* the popup sends up to MaxFillRequests requests to a tab that shows a
\* page of one batch or of none
Init ==
  /\ tab \in {p \in DOMAIN Collected :
               Len(Collected[p].fieldsJson) <= batchSize}
  /\ fillsLeft = MaxFillRequests
  /\ InitContent
  /\ InitGateway
  /\ InitDateIdle
  /\ InitResolveIdle
  /\ InitCallIdle

(***************************************************************************)
(* Actions: one per task of the event loop                                 *)
(***************************************************************************)
\* a variant of noFieldsFound that never takes the early exit
noFieldsFound_never(elements) == FALSE

\* line 678: elements.length === 0
noFieldsFound(elements) == Len(elements) = 0

\* chrome.runtime.onMessage with action 'fillForms' (the popup always sends
\* useAI: true): processFormFilling up to its first await that leaves the
\* task, the storage read of loadHFToken inside createSession
FillForms ==
  /\ fillsLeft > 0
  /\ fillsLeft' = fillsLeft - 1
  /\ UNCHANGED <<tab, gatewayVars, clicks, harnessVars>>
  /\ IF isProcessing
     THEN UNCHANGED contentVars
     ELSE LET r  == CHOOSE n \in RunIds :
                      /\ runs[n].pc = "idle"
                      /\ \A m \in RunIds : runs[m].pc = "idle" => n <= m
              s1 == clearOverlays([Store EXCEPT !.isProcessing = TRUE,
                                                !.isCancelled = FALSE])
              s2 == [s1 EXCEPT !.loadingOverlay = TRUE]
          IN  IF noFieldsFound(s2.collected.elements)
              THEN Commit([s2 EXCEPT !.loadingOverlay = FALSE,
                                     !.isProcessing = FALSE,
                                     !.completes = @ + 1,
                                     !.runs[r].pc = "done"])
              ELSE Commit([s2 EXCEPT !.injected = TRUE,
                                     !.runs[r].pc = "loadToken"])

\* chrome.storage.local.get calls back: loadHFToken returns and
\* createSession posts CREATE_SESSION
StorageLoaded(r) ==
  /\ runs[r].pc = "loadToken"
  /\ LET s1 == post(Store, "CREATE_SESSION", 0, -1, {})
     IN  Commit([s1 EXCEPT !.runs[r].pc = "createSession",
                           !.runs[r].waitId = s1.seq])
  /\ UNCHANGED <<tab, gatewayVars, fillsLeft, clicks, harnessVars>>

\* the <script> element appended by ensureInjected has loaded: both
\* listeners of injected.js are registered
ScriptLoaded ==
  /\ injected
  /\ ~scriptLoaded
  /\ scriptLoaded' = TRUE
  /\ UNCHANGED <<tab, contentVars, sessions, sidCounter, fetches, fillsLeft,
                 clicks, harnessVars>>

\* The message at the head of the window's queue is dispatched.
\* A request goes to the gateway: both copies of the listener in injected.js
\* run on it and keep identical sessions maps and counters; each posts a
\* reply, so two equal replies are queued.  For a PROMPT of a known session
\* the second copy starts the fetch; the first copy posts HF_API_CALL,
\* which no listener answers, and replies only after the bridge timer of
\* the same length has removed the entry.
\* A reply goes to AIBridge.onMessage.
DeliverMessage ==
  /\ wq # <<>>
  /\ LET m == Head(wq)
         \* the replies of the two copies of the listener to one request
         postReplies(q, stillPending, each) ==
           postReply(postReply(q, stillPending, each), stillPending, each)
     IN
     IF m.kind = "request"
     THEN /\ UNCHANGED <<isProcessing, isCancelled, currentSessionId,
                         identifiedFields, fieldOverlays, tracking, seq,
                         pending, injected, loadingOverlay, actionPanels,
                         controls, runs, cancels, alerts, completes, uncaught>>
          /\ UNCHANGED scriptLoaded
          /\ IF ~scriptLoaded
             THEN /\ wq' = Tail(wq)
                  /\ UNCHANGED <<sessions, sidCounter, fetches>>
             ELSE IF m.type = "CREATE_SESSION"
             THEN /\ sidCounter' = sidCounter + 1
                  /\ sessions' = sessions \cup {sidCounter + 1}
                  /\ wq' = postReplies(Tail(wq), pending,
                                     Reply(m.id, sidCounter + 1, Prose, ""))
                  /\ UNCHANGED fetches
             ELSE IF m.type = "PROMPT"
             THEN /\ UNCHANGED <<sessions, sidCounter>>
                  /\ IF m.sessionId \in sessions
                     THEN /\ fetches' = fetches \cup {[id |-> m.id, start |-> m.start]}
                          /\ wq' = Tail(wq)
                     ELSE /\ wq' = postReplies(Tail(wq), pending,
                                     Reply(m.id, 0, Prose, "Error: Session not found"))
                          /\ UNCHANGED fetches
             ELSE /\ sessions' = sessions \ {m.sessionId}
                  /\ wq' = postReplies(Tail(wq), pending,
                                       Reply(m.id, 0, Prose, ""))
                  /\ UNCHANGED <<sidCounter, fetches>>
     ELSE /\ UNCHANGED gatewayVars
          /\ IF m.id \in pending
             THEN Commit(settle([Store EXCEPT !.wq = Tail(@),
                                              !.pending = @ \ {m.id}],
                                m.id, m))
             ELSE /\ wq' = Tail(wq)
                  /\ UNCHANGED <<isProcessing, isCancelled, currentSessionId,
                                 identifiedFields, fieldOverlays, tracking,
                                 seq, pending, injected, loadingOverlay,
                                 actionPanels, controls, runs, cancels,
                                 alerts, completes, uncaught>>
  /\ UNCHANGED <<tab, fillsLeft, clicks, harnessVars>>

\* the fetch of callHuggingFaceAPI for request f.id is answered with a
\* completion
FetchAnswered(f, text) ==
  /\ f \in fetches
  /\ fetches' = fetches \ {f}
  /\ wq' = postReply(wq, pending, Reply(f.id, 0, text, ""))
  /\ UNCHANGED <<tab, isProcessing, isCancelled, currentSessionId,
                 identifiedFields, fieldOverlays, tracking, seq, pending,
                 injected, loadingOverlay, actionPanels, controls, runs,
                 cancels, alerts, completes, uncaught, scriptLoaded,
                 sessions, sidCounter, fillsLeft, clicks, harnessVars>>

\* the fetch fails: status 401 (alert), another status that is not ok
\* (alert), or a rejected fetch; the gateway replies with the error
FetchFailed(f, how) ==
  /\ f \in fetches
  /\ fetches' = fetches \ {f}
  /\ wq' = postReply(wq, pending, Reply(f.id, 0, Prose,
                            IF how = "401"
                            THEN "Error: HuggingFace API call failed: Authentication failed (401): Invalid API token"
                            ELSE IF how = "status"
                            THEN "Error: HuggingFace API call failed: HuggingFace API error"
                            ELSE "Error: HuggingFace API call failed: Failed to fetch"))
  /\ alerts' = IF how = "401"
               THEN alerts \cup {[text |-> "HuggingFace API authentication failed.",
                                  message |-> ""]}
               ELSE IF how = "status"
               THEN alerts \cup {[text |-> "HF API Error:", message |-> ""]}
               ELSE alerts
  /\ UNCHANGED <<tab, isProcessing, isCancelled, currentSessionId,
                 identifiedFields, fieldOverlays, tracking, seq, pending,
                 injected, loadingOverlay, actionPanels, controls, runs,
                 cancels, completes, uncaught, scriptLoaded,
                 sessions, sidCounter, fillsLeft, clicks, harnessVars>>

\* the timer of AIBridge.post fires while the request is still pending
BridgeTimeout(id) ==
  /\ id \in pending
  /\ LET type == requestType(Store, id)
     IN  Commit(settle([Store EXCEPT !.pending = @ \ {id}], id,
                       Reply(id, 0, Prose,
                             IF type = "PROMPT"
                             THEN "AI bridge timeout for PROMPT"
                             ELSE IF type = "DESTROY"
                             THEN "AI bridge timeout for DESTROY"
                             ELSE "AI bridge timeout for CREATE_SESSION")))
  /\ UNCHANGED <<tab, gatewayVars, fillsLeft, clicks, harnessVars>>

\* a click on #aiCancelBtn: cancelProcessing up to its await (or to its
\* end when there is no session), then the continuations of the promises
\* that cancelAllPending rejected
CancelClick ==
  /\ loadingOverlay
  /\ clicks < MaxCancelClicks
  /\ clicks' = clicks + 1
  /\ LET woken == pending
         s0 == [Store EXCEPT
                  !.isCancelled = TRUE,
                  !.pending = {},
                  !.runs = [r \in RunIds |->
                              IF Active(@[r]) THEN [@[r] EXCEPT !.cancelled = TRUE]
                              ELSE @[r]]]
         s1 == IF s0.currentSessionId # 0
               THEN LET t == post(s0, "DESTROY", s0.currentSessionId, -1, {})
                    IN  [t EXCEPT !.cancels = @ \cup {t.seq}]
               ELSE [s0 EXCEPT !.loadingOverlay = FALSE,
                               !.isProcessing = FALSE,
                               !.completes = @ + 1]
     IN  Commit(rejectAll(s1, wakeOrder(Store, woken), 1))
  /\ UNCHANGED <<tab, gatewayVars, fillsLeft, harnessVars>>

Next ==
  \/ FillForms
  \/ \E r \in RunIds : StorageLoaded(r)
  \/ ScriptLoaded
  \/ DeliverMessage
  \/ \E f \in fetches : \E text \in Collected[tab].replies[(f.start \div batchSize) + 1] : FetchAnswered(f, text)
  \/ \E f \in fetches : \E how \in {"401", "status", "network"} : FetchFailed(f, how)
  \/ \E id \in pending : BridgeTimeout(id)
  \/ CancelClick

Spec == Init /\ [][Next]_vars

\* the popup sends up to MaxBatchRequests requests to a tab that shows any of
\* the pages
InitBatches ==
  /\ tab \in DOMAIN Collected
  /\ fillsLeft = MaxBatchRequests
  /\ InitContent
  /\ InitGateway
  /\ InitDateIdle
  /\ InitResolveIdle
  /\ InitCallIdle

SpecBatches == InitBatches /\ [][Next]_vars

(***************************************************************************)
(* FormAnalyzer.fillField on the date input of the application form, for   *)
(* a range of suggested values                                             *)
(***************************************************************************)
\* suggested values of every shape sanitizeDateValue tells apart
DateInputs ==
  {<<"2", "0", "2", "0", "-", "0", "3", "-", "0", "5">>, <<"1", "9", "9", "9", "-", "1", "2", "-", "3", "1">>, <<"2", "0", "2", "0", "-", "1", "3", "-", "4", "0">>, <<"2", "0", "2", "1", "-", "0", "2", "-", "3", "0">>,
   <<"2", "0", "1", "7">>, <<"0", "0", "0", "0">>, <<" ", "2", "0", "1", "7", " ">>, <<"2", "0", "1", "7", " ">>,
   <<"2", "0", "1", "7", "-", "P", "r", "e", "s", "e", "n", "t">>, <<"2", "0", "1", "7", " ", "-", " ", "p", "r", "e", "s", "e", "n", "t">>, <<"2", "0", "1", "7", "p", "r", "e", "s", "e", "n", "t">>, <<"2", "0", "1", "7", " ", "C", "u", "r", "r", "e", "n", "t">>,
   <<"2", "0", "1", "7", "-", "n", "o", "w">>, <<"2", "0", "1", "9", "-", "-", "T", "O", "D", "A", "Y">>, <<"2", "0", "1", "7", "-", "P", "r", "e", "s", "e", "n", "t", "l", "y">>,
   <<"P", "r", "e", "s", "e", "n", "t">>, <<"c", "u", "r", "r", "e", "n", "t">>, <<"N", "O", "W">>, <<"T", "o", "d", "a", "y">>, <<" ", "p", "r", "e", "s", "e", "n", "t", " ">>,
   <<"p", "r", "e", "s", "e", "n", "t", "l", "y">>, <<"n", "o", "w", ".">>,
   <<"1", "3", "/", "4", "0", "/", "2", "0", "2", "0">>, <<"4", "0", "-", "1", "3", "-", "2", "0", "2", "0">>, <<"0", "0", "/", "0", "0", "/", "0", "0", "0", "0">>, <<"2", "/", "3", "0", "/", "2", "0", "2", "1">>,
   <<"1", "2", "/", "3", "2", "/", "2", "0", "2", "0">>, <<"1", "3", "-", "0", "1", "-", "2", "0", "2", "0">>, <<"0", "/", "5", "/", "2", "0", "2", "0">>,
   <<"1", "/", "5", "/", "2", "0", "2", "0">>, <<"0", "1", "/", "0", "5", "/", "2", "0", "2", "0">>, <<"1", "2", "-", "3", "1", "-", "1", "9", "9", "9">>, <<"3", "/", "1", "5", "/", "2", "0", "2", "1">>,
   <<"1", "2", "/", "1", "/", "2", "0", "2", "0">>, <<" ", "7", "-", "4", "-", "2", "0", "2", "1", " ">>, <<"1", "/", "5", "-", "2", "0", "2", "0">>,
   <<"2", "0", "1", "7", "/", "0", "5", "/", "0", "3">>, <<"2", "0", "1", "7", "-", "0", "5">>, <<"2", "0", "1", "7", "-", "5", "-", "3">>, <<"2", "0", "1", "7", "1">>, <<"2", "0", "1", "7", "a", "b", "c">>,
   <<"2", "0", "1", "7", ".", "0", "5", ".", "0", "3">>, <<" ", "2", "0", "1", "7", "-", "0", "5", "-", "0", "3">>, <<"2", "0", "1", "7", "-", "0", "5", "-", "0", "3", "T", "1", "0", ":", "0", "0", ":", "0", "0", "Z">>,
   <<"2", "0", "1", "7", " ", "t", "o", " ", "2", "0", "1", "9">>, <<"2", "0", "1", "7", "-", "2", "0", "1", "9">>,
   <<"M", "a", "r", "c", "h", " ", "5", ",", " ", "2", "0", "2", "0">>, <<"5", " ", "M", "a", "r", " ", "2", "0", "2", "0">>, <<"t", "o", "m", "o", "r", "r", "o", "w">>, <<"n", "/", "a">>, <<"a", "b", "c">>,
   <<"1", "/", "2", "/", "2", "0">>, <<"0", "5", "/", "2", "0", "2", "0">>, <<"1", "/", "2", "/", "3", "/", "2", "0", "2", "0">>, <<"1", "2", "3", "/", "1", "/", "2", "0", "2", "0">>, <<" ">>,
   <<"1", "7">>, <<"2", "0", "1">>}

\* what new Date(dateStr) gives for a string that no rule matches depends on
\* the engine and on the time zone: an Invalid Date (Null), or a date
DateParses == {Null, <<"2", "0", "2", "0", "-", "0", "3", "-", "0", "5">>, <<"2", "0", "2", "0", "-", "0", "3", "-", "0", "4">>}

\* the position of <input type="date" id="start_date"> among the nodes of
\* the application form
DateNode ==
  CHOOSE n \in DOMAIN ApplicationPage.nodes :
    ApplicationPage.nodes[n].id = <<"s", "t", "a", "r", "t", "_", "d", "a", "t", "e">>

InitDate ==
  /\ tab = 1
  /\ fillsLeft = 0
  /\ InitContent
  /\ InitGateway
  /\ InitResolveIdle
  /\ InitCallIdle
  /\ dateSuggested \in DateInputs
  /\ dateParsed \in DateParses
  /\ dateControl = <<>>
  /\ dateAssigned = Null
  /\ datePc = "start"

\* this.fillField(field.element, field.suggestedValue, false) on the date
\* input
FillDateField ==
  /\ datePc = "start"
  /\ LET applied(res) ==
           /\ dateControl' = res.value
           /\ dateAssigned' = res.assigned
           /\ datePc' = IF res.threw THEN "threw"
                        ELSE IF res.dispatched THEN "filled" ELSE "skipped"
     IN  applied(fillField(ApplicationPage.nodes[DateNode], dateSuggested,
                           FALSE, dateControl, Today, dateParsed))
  /\ UNCHANGED <<tab, contentVars, gatewayVars, fillsLeft, clicks,
                 dateSuggested, dateParsed, resolveVars, callVars>>

SpecDate == InitDate /\ [][FillDateField]_vars

(***************************************************************************)
(* FormAnalyzer.resolveFieldIndex on the fields of the application form,   *)
(* for suggestions that name one field by key and another by some other    *)
(* property                                                                *)
(***************************************************************************)
\* the properties, next to the key, by which a suggestion can name a field
Vias == {"index", "id", "name", "label", "cssPath"}

\* the fields a suggestion names: indices into the fields of the
\* application form (named inputs, the file input, a select, a plain input
\* of the second batch and the two content-editable blocks)
ResolveIndices == {0, 1, 3, 4, 30, 47, 48}

\* a suggestion with the stableKey of field a and the given property of
\* field b
Crossed(fieldsJson, a, b, via) ==
  [NoItem EXCEPT
     !.key     = fieldsJson[a + 1].stableKey,
     !.index   = IF via = "index" THEN <<b>> ELSE @,
     !.id      = IF via = "id" THEN fieldsJson[b + 1].id ELSE @,
     !.name    = IF via = "name" THEN fieldsJson[b + 1].name ELSE @,
     !.label   = IF via = "label" THEN fieldsJson[b + 1].label ELSE @,
     !.cssPath = IF via = "cssPath" THEN fieldsJson[b + 1].cssPath ELSE @,
     !.value   = <<"x">>]

InitResolve ==
  /\ tab = 1
  /\ fillsLeft = 0
  /\ InitContent
  /\ InitGateway
  /\ InitDateIdle
  /\ InitCallIdle
  /\ rsKeyOf \in ResolveIndices
  /\ rsOther \in ResolveIndices
  /\ \E via \in Vias :
       rsItem = Crossed(Collected[1].fieldsJson, rsKeyOf, rsOther, via)
  /\ rsResult = -1
  /\ rsPc = "start"

\* const resolvedIdx = this.resolveFieldIndex(item, fieldsJson)
Resolve ==
  /\ rsPc = "start"
  /\ rsResult' = resolveFieldIndex(rsItem, Collected[1].fieldsJson)
  /\ rsPc' = "done"
  /\ UNCHANGED <<tab, contentVars, gatewayVars, fillsLeft, clicks, dateVars,
                 rsKeyOf, rsOther, rsItem, callVars>>

SpecResolve == InitResolve /\ [][Resolve]_vars

(***************************************************************************)
(* Properties                                                              *)
(***************************************************************************)
\* C1 (at-most-one acceptance): after any sequence of batch replies and the
\* default backfill, no two entries of identifiedFields pushed by one run
\* refer to the same field index or to the same element.
AtMostOneAcceptance ==
  \A i, j \in DOMAIN identifiedFields :
    (i # j /\ identifiedFields[i].run = identifiedFields[j].run)
      => /\ identifiedFields[i].index # identifiedFields[j].index
         /\ identifiedFields[i].element # identifiedFields[j].element

\* a run that dropped a suggestion for a claimed field, went through the
\* backfill and holds an entry of it
AtMostOneAcceptanceWitness ==
  \E r \in RunIds :
    /\ runs[r].discarded > 0
    /\ runs[r].outcome = "filled"
    /\ \E k \in DOMAIN identifiedFields :
         identifiedFields[k].run = r /\ identifiedFields[k].batch = -1
    /\ \E k \in DOMAIN identifiedFields :
         identifiedFields[k].run = r /\ identifiedFields[k].batch >= 0

\* C2 (single run in progress): at any time at most one call of
\* processFormFilling has started and not yet finished, a call that was
\* cancelled but has not unwound included.
OneRunInProgress ==
  Cardinality({r \in RunIds : Active(runs[r])}) <= 1

\* C3 (no prompt after cancel): a run during which cancelProcessing set the
\* cancellation flag posts no further PROMPT request.
NoPromptAfterCancel ==
  \A r \in RunIds : ~runs[r].promptedAfterCancel

\* C4 (a cancelled run fills nothing): a run that was cancelled never
\* reaches createOverlays, so none of its suggestions is written into a
\* control.
CancelledRunNeverFills ==
  \A r \in RunIds : runs[r].cancelled => ~runs[r].overlaid

\* C5 (key precedence): a suggestion whose key is the stableKey of field A
\* and whose index, id, name, label or cssPath is that of another field B
\* resolves to A.
KeyPrecedence ==
  (rsPc = "done" /\ rsOther # rsKeyOf) => rsResult = rsKeyOf

\* C6 (file fields excluded): no PROMPT lists a file field, and no entry of
\* identifiedFields is for a file field.
FileFieldsExcluded ==
  /\ \A k \in DOMAIN wq :
       wq[k].type = "PROMPT" =>
         \A i \in wq[k].fields :
           ~isFile(Collected[tab].page, Collected[tab].elements,
                   Collected[tab].fieldsJson, i)
  /\ \A k \in DOMAIN identifiedFields :
       ~isFile(Collected[tab].page, Collected[tab].elements,
               Collected[tab].fieldsJson, identifiedFields[k].index)

\* C7 (batch failure isolation): when the prompt of a batch fails with
\* another error than the cancellation, or its reply holds no suggestion,
\* the run has sent the PROMPT of the next batch, if there is one, and the
\* step that meets the failure keeps every entry of identifiedFields.
BatchFailureIsolation ==
  /\ [](\A r \in RunIds : \A b \in runs[r].failed :
          b + batchSize < Len(Collected[tab].fieldsJson)
            => (b + batchSize) \in runs[r].sent)
  /\ [][\A r \in RunIds :
          runs'[r].failed # runs[r].failed
            => /\ Len(identifiedFields') >= Len(identifiedFields)
               /\ SubSeq(identifiedFields', 1, Len(identifiedFields))
                    = identifiedFields]_vars

\* a run whose batch b failed after an earlier batch gave an entry, and
\* that has sent the prompt of the batch after b
BatchFailureIsolationWitness ==
  \E r \in RunIds : \E b \in runs[r].failed :
    /\ (b + batchSize) \in runs[r].sent
    /\ \E k \in DOMAIN identifiedFields :
         /\ identifiedFields[k].run = r
         /\ identifiedFields[k].batch >= 0
         /\ identifiedFields[k].batch < b

InvalidDatesRejected ==
  LET dateStr == trim(dateSuggested)
      outOfRange ==
        /\ slashDate(dateStr)
        /\ \/ DecimalValue(slashMonth(dateStr)) \notin 1..12
           \/ DecimalValue(slashDay(dateStr)) \notin 1..31
  IN  (datePc # "start" /\ outOfRange)
        => /\ datePc = "skipped"
           /\ dateAssigned = Null
           /\ dateControl = <<>>

\* C10 (date rule table): YYYY-MM-DD is returned verbatim; one of the words
\* present, current, now, today gives today's date; a bare 4-digit year, or
\* a year followed by separators and one of the words, gives YYYY-01-01;
\* MM/DD/YYYY or MM-DD-YYYY gives YYYY-MM-DD with zero padding; every other
\* value goes to the generic parsing or is rejected.
DateRuleTable ==
  LET dateStr == trim(dateSuggested)
      yearWord ==
        /\ Len(dateStr) > 4
        /\ AllDigits(SubSeq(dateStr, 1, 4))
        /\ \E w \in DateWords :
             /\ Len(dateStr) >= 4 + Len(w)
             /\ toLowerCase(SubSeq(dateStr, Len(dateStr) - Len(w) + 1,
                                   Len(dateStr))) = w
             /\ \A i \in 5..(Len(dateStr) - Len(w)) :
                  dateStr[i] \in Whitespace \cup {"-"}
      expected ==
        IF dateSuggested = <<>> THEN Null
        ELSE IF IsoShape(dateSuggested) THEN dateSuggested
        ELSE IF WordShape(dateStr) THEN Today
        ELSE IF YearShape(dateStr) \/ yearWord
             THEN SubSeq(dateStr, 1, 4) \o <<"-", "0", "1", "-", "0", "1">>
        ELSE IF slashDate(dateStr)
             THEN slashYear(dateStr) \o <<"-">>
                  \o padStart2(slashMonth(dateStr)) \o <<"-">>
                  \o padStart2(slashDay(dateStr))
        ELSE dateParsed
  IN  datePc # "start" => dateAssigned = expected

(***************************************************************************)
(* JSON.parse and JSON.stringify.  A JSON value is a record                *)
(*   [t, s, items]:  t is its type (string, number, literal, array,        *)
(* object, member); s the characters of a string, the source text of a     *)
(* number, the name of a literal or the key of an object member; items the *)
(* elements of an array, the members of an object (in source order) or the *)
(* one value of a member.                                                  *)
(***************************************************************************)
Json(t, s, items) == [t |-> t, s |-> s, items |-> items]

Undefined == Json("undefined", <<>>, <<>>)

\* JSON.parse(text): [threw, val], the value or a SyntaxError that is
\* thrown.  (The texts parsed here hold no \u escape: it is a syntax error
\* below.)
JSON_parse(text) ==
  LET Parsed(pos, val) == [ok |-> TRUE, pos |-> pos, val |-> val]
      SyntaxError == [ok |-> FALSE, pos |-> 0, val |-> Undefined]
      is(j, chars) == j <= Len(text) /\ text[j] \in chars
      \* the first position from i on that holds none of the characters
      pastAll(i, chars) ==
        CHOOSE j \in i..(Len(text) + 1) :
          /\ \A k \in i..(j - 1) : text[k] \in chars
          /\ ~is(j, chars)
      skipWs(i) == pastAll(i, {" ", "\t", "\n", "\r"})
      \* the characters the two-character escapes of a string stand for
      unescaped(c) ==
        CASE c = "n" -> <<"\n">>
          [] c = "t" -> <<"\t">>
          [] c = "r" -> <<"\r">>
          [] c \in {"\"", "\\", "/"} -> <<c>>
          [] c = "b" -> <<"<backspace>">>
          [] c = "f" -> <<"<formfeed>">>
          [] OTHER -> <<>>
      \* the character at position j follows an odd number of backslashes
      \* that begin at position i or later: it is the second character of
      \* an escape
      escapedAt(i, j) ==
        LET run == CHOOSE k \in i..j :
                     /\ \A m \in k..(j - 1) : text[m] = "\\"
                     /\ (k = i \/ text[k - 1] # "\\")
        IN  (j - run) % 2 = 1
      \* the characters that text[from..to], a part of the body of a string
      \* literal that begins at position i, stands for (the range is halved
      \* so that the evaluation does not nest once per character)
      RECURSIVE stringChars(_, _, _)
      stringChars(i, from, to) ==
        IF from > to THEN <<>>
        ELSE IF from = to
             THEN IF escapedAt(i, from) THEN <<>>
                  ELSE IF text[from] = "\\" THEN unescaped(text[from + 1])
                  ELSE <<text[from]>>
        ELSE stringChars(i, from, (from + to) \div 2)
             \o stringChars(i, (from + to) \div 2 + 1, to)
      \* a string literal whose body begins at position i, after the
      \* opening quote: it ends at the first quote that is not escaped, and
      \* holds no control character and no unknown escape
      string(i) ==
        LET closes(j) == text[j] = "\"" /\ ~escapedAt(i, j)
            body(j) ==
              IF \A k \in i..(j - 1) :
                   /\ text[k] \notin {"\t", "\n", "\r"}
                   /\ (text[k] = "\\" /\ ~escapedAt(i, k))
                        => unescaped(text[k + 1]) # <<>>
              THEN Parsed(j + 1, Json("string", stringChars(i, i, j - 1), <<>>))
              ELSE SyntaxError
        IN  IF \E j \in i..Len(text) : closes(j)
            THEN body(CHOOSE j \in i..Len(text) :
                        closes(j) /\ \A k \in i..(j - 1) : ~closes(k))
            ELSE SyntaxError
      \* a number at position i:
      \*   -? (0 | [1-9][0-9]*) (\. [0-9]+)? ([eE] [+-]? [0-9]+)?
      number(i) ==
        LET ends(j) == Parsed(j, Json("number", SubSeq(text, i, j - 1), <<>>))
            exponent(c) ==
              IF ~is(c, {"e", "E"}) THEN ends(c)
              ELSE LET fromDigit(d) ==
                         IF is(d, Digits) THEN ends(pastAll(d, Digits))
                         ELSE SyntaxError
                   IN  fromDigit(IF is(c + 1, {"+", "-"}) THEN c + 2 ELSE c + 1)
            fraction(b) ==
              IF ~is(b, {"."}) THEN exponent(b)
              ELSE IF is(b + 1, Digits) THEN exponent(pastAll(b + 1, Digits))
              ELSE SyntaxError
            integer(a) ==
              IF ~is(a, Digits) THEN SyntaxError
              ELSE IF text[a] = "0" THEN fraction(a + 1)
              ELSE fraction(pastAll(a, Digits))
        IN  integer(IF text[i] = "-" THEN i + 1 ELSE i)
      \* true, false or null at position i
      literal(i) ==
        LET at(word) ==
              /\ i + Len(word) - 1 <= Len(text)
              /\ SubSeq(text, i, i + Len(word) - 1) = word
            first(words) ==
              IF \E k \in DOMAIN words : at(words[k])
              THEN LET word == words[CHOOSE k \in DOMAIN words : at(words[k])]
                   IN  Parsed(i + Len(word), Json("literal", word, <<>>))
              ELSE SyntaxError
        IN  first(<<<<"t", "r", "u", "e">>, <<"f", "a", "l", "s", "e">>, <<"n", "u", "l", "l">>>>)
      \* a value at or after position i0; the elements of an array after
      \* its '[' and the members of an object after its '{'
      RECURSIVE value(_)
      RECURSIVE elements(_, _)
      RECURSIVE members(_, _)
      value(i0) ==
        LET array(j) ==
              IF is(j, {"]"}) THEN Parsed(j + 1, Json("array", <<>>, <<>>))
              ELSE elements(j, <<>>)
            object(j) ==
              IF is(j, {"}"}) THEN Parsed(j + 1, Json("object", <<>>, <<>>))
              ELSE members(j, <<>>)
            at(i) ==
              IF i > Len(text) THEN SyntaxError
              ELSE IF text[i] = "\"" THEN string(i + 1)
              ELSE IF text[i] = "[" THEN array(skipWs(i + 1))
              ELSE IF text[i] = "{" THEN object(skipWs(i + 1))
              ELSE IF text[i] = "-" \/ text[i] \in Digits THEN number(i)
              ELSE literal(i)
        IN  at(skipWs(i0))
      elements(i, acc) ==
        LET after(v, j) ==
              IF is(j, {","}) THEN elements(j + 1, Append(acc, v.val))
              ELSE IF is(j, {"]"})
                   THEN Parsed(j + 1, Json("array", <<>>, Append(acc, v.val)))
              ELSE SyntaxError
            element(v) == IF v.ok THEN after(v, skipWs(v.pos)) ELSE SyntaxError
        IN  element(value(i))
      members(i, acc) ==
        LET with(key, v) == Append(acc, Json("member", key.val.s, <<v.val>>))
            after(key, v, j) ==
              IF is(j, {","}) THEN members(skipWs(j + 1), with(key, v))
              ELSE IF is(j, {"}"})
                   THEN Parsed(j + 1, Json("object", <<>>, with(key, v)))
              ELSE SyntaxError
            valued(key, v) ==
              IF v.ok THEN after(key, v, skipWs(v.pos)) ELSE SyntaxError
            colon(key, j) ==
              IF is(j, {":"}) THEN valued(key, value(j + 1)) ELSE SyntaxError
            named(key) ==
              IF key.ok THEN colon(key, skipWs(key.pos)) ELSE SyntaxError
        IN  IF is(i, {"\""}) THEN named(string(i + 1)) ELSE SyntaxError
      whole(v) ==
        IF v.ok /\ skipWs(v.pos) > Len(text)
        THEN [threw |-> FALSE, val |-> v.val]
        ELSE [threw |-> TRUE, val |-> Undefined]
  IN  whole(value(1))

\* JSON.stringify of a value
RECURSIVE JSON_stringify(_)
JSON_stringify(v) ==
  LET RECURSIVE joinComma(_)
      joinComma(texts) ==
        IF texts = <<>> THEN <<>>
        ELSE IF Len(texts) = 1 THEN texts[1]
        ELSE texts[1] \o <<",">> \o joinComma(Tail(texts))
  IN  IF v.t = "string" THEN jsonString(v.s)
      ELSE IF v.t = "array"
           THEN <<"[">>
                \o joinComma([k \in DOMAIN v.items |->
                                JSON_stringify(v.items[k])])
                \o <<"]">>
      ELSE IF v.t = "object"
           THEN <<"{">>
                \o joinComma([k \in DOMAIN v.items |->
                                jsonString(v.items[k].s) \o <<":">>
                                \o JSON_stringify(v.items[k].items[1])])
                \o <<"}">>
      ELSE v.s

(***************************************************************************)
(* FormAnalyzer.parseArrayFromText, character by character.  Its argument  *)
(* is a record [kind, text, value, cyclic]: a string (text), an object     *)
(* (value; cyclic when JSON.stringify of it throws) or anything else.  The *)
(* result is [threw, value]: the array returned, or an exception.          *)
(***************************************************************************)
\* lines 1031-1034 and 1040-1043: the content of the message or of the
\* delta of the first choice of obj when it is a string, else null
contentOf(obj) ==
  LET \* ToBoolean(v)
      truthy(v) ==
        IF v.t = "undefined" THEN FALSE
        ELSE IF v.t = "literal" THEN v.s = <<"t", "r", "u", "e">>
        ELSE IF v.t = "string" THEN v.s # <<>>
        ELSE IF v.t = "number"
             THEN \E k \in DOMAIN v.s :
                    /\ v.s[k] \in Digits \ {"0"}
                    /\ \A m \in 1..k : v.s[m] \notin {"e", "E"}
        ELSE TRUE
      \* v[name] for the names choices, message, delta and content
      get(v, name) ==
        IF v.t = "object" /\ \E k \in DOMAIN v.items : v.items[k].s = name
        THEN v.items[lastIndex({k \in DOMAIN v.items :
                                  v.items[k].s = name}) + 1].items[1]
        ELSE Undefined
      \* v[0]
      first(v) ==
        IF v.t = "array" THEN IF v.items = <<>> THEN Undefined ELSE v.items[1]
        ELSE IF v.t = "string"
             THEN IF v.s = <<>> THEN Undefined
                  ELSE Json("string", <<v.s[1]>>, <<>>)
        ELSE get(v, <<"0">>)
      \* a && b
      and(a, b) == IF truthy(a) THEN b ELSE a
      content(ch, part) == get(get(ch, part), <<"c", "o", "n", "t", "e", "n", "t">>)
      present(ch, part) ==
        truthy(ch) /\ truthy(get(ch, part)) /\ content(ch, part).t = "string"
      chosen(ch) ==
        IF present(ch, <<"m", "e", "s", "s", "a", "g", "e">>) THEN content(ch, <<"m", "e", "s", "s", "a", "g", "e">>)
        ELSE IF present(ch, <<"d", "e", "l", "t", "a">>) THEN content(ch, <<"d", "e", "l", "t", "a">>)
        ELSE Json("literal", <<"n", "u", "l", "l">>, <<>>)
      choice(choices) == chosen(and(choices, first(choices)))
  IN  IF truthy(obj) THEN choice(get(obj, <<"c", "h", "o", "i", "c", "e", "s">>))
      ELSE Json("literal", <<"n", "u", "l", "l">>, <<>>)

\* s.indexOf(sub) and s.lastIndexOf(sub), counted from 0; -1 when absent
indexOf(s, sub) ==
  LET least(found) ==
        IF found = {} THEN -1
        ELSE CHOOSE i \in found : \A j \in found : i <= j
  IN  least({i \in 0..(Len(s) - Len(sub)) :
               SubSeq(s, i + 1, i + Len(sub)) = sub})

lastIndexOf(s, sub) ==
  LET greatest(found) ==
        IF found = {} THEN -1
        ELSE CHOOSE i \in found : \A j \in found : j <= i
  IN  greatest({i \in 0..(Len(s) - Len(sub)) :
                  SubSeq(s, i + 1, i + Len(sub)) = sub})

\* stripFences, lines 1058-1067
stripFences(s0) ==
  LET Fence == <<"<grave>", "<grave>", "<grave>">>
      closed(s) ==
        IF lastIndexOf(s, Fence) # -1
        THEN SubSeq(s, 1, lastIndexOf(s, Fence))
        ELSE s
      opened(s) ==
        IF indexOf(s, <<"\n">>) # -1
        THEN SubSeq(s, indexOf(s, <<"\n">>) + 2, Len(s))
        ELSE s
      fenced(s) ==
        IF Len(s) >= 3 /\ SubSeq(s, 1, 3) = Fence THEN closed(opened(s))
        ELSE s
  IN  trim(fenced(trim(s0)))

\* lines 1024-1052: the text that is parsed.  For a string it is the string
\* itself, or the content of its first choice when it is the JSON text of
\* a whole completion; for an object the content of its first choice, or
\* its JSON text ('' when JSON.stringify throws); an argument that is
\* neither gives [] as an empty text does.
contentText(input) ==
  LET or(c, other) == IF c.t = "string" THEN c.s ELSE other
      completion(text, parsed) ==
        IF parsed.threw THEN text ELSE or(contentOf(parsed.val), text)
      ofString(text, trimmed) ==
        IF /\ trimmed # <<>> /\ trimmed[1] = "{"
           /\ indexOf(trimmed, <<"\"">> \o <<"c", "h", "o", "i", "c", "e", "s">> \o <<"\"">>) # -1
        THEN completion(text, JSON_parse(trimmed))
        ELSE text
  IN  IF input.kind = "string" THEN ofString(input.text, trim(input.text))
      ELSE IF input.kind = "object"
           THEN IF contentOf(input.value).t = "string"
                THEN contentOf(input.value).s
                ELSE IF input.cyclic THEN <<>>
                ELSE JSON_stringify(input.value)
      ELSE <<>>

\* lines 1055-1068: the text without its byte order mark and code fences
strippedText(input) ==
  LET unmarked(text) ==
        stripFences(IF text # <<>> /\ text[1] = Bom THEN Tail(text) ELSE text)
  IN  unmarked(contentText(input))

\* a variant of parseObject that lets the SyntaxError of JSON.parse escape
parseObject_uncaught(objText) ==
  LET outcome(r) ==
        [threw |-> r.threw, pushed |-> IF r.threw THEN <<>> ELSE <<r.val>>]
  IN  outcome(JSON_parse(objText))

\* lines 1115-1120:  try { results.push(JSON.parse(objText)) } catch (_) {}
parseObject(objText) ==
  LET outcome(r) ==
        [threw |-> FALSE, pushed |-> IF r.threw THEN <<>> ELSE <<r.val>>]
  IN  outcome(JSON_parse(objText))

\* The loop of lines 1086-1125 for the indices from..to (counted from 0),
\* begun in the state st of its variables (the range is halved so that the
\* evaluation does not nest once per character); no round runs after an
\* exception.
RECURSIVE scanObjects(_, _, _, _)
scanObjects(text, from, to, st) ==
  LET \* one round, at index i
      round(i, ch) ==
        LET closing(parsed) ==
              [st EXCEPT !.curlyDepth = 0, !.objStart = -1,
                         !.results = @ \o parsed.pushed,
                         !.threw = parsed.threw]
        IN  IF st.inString
            THEN IF st.escape THEN [st EXCEPT !.escape = FALSE]
                 ELSE IF ch = "\\" THEN [st EXCEPT !.escape = TRUE]
                 ELSE IF ch = "\"" THEN [st EXCEPT !.inString = FALSE]
                 ELSE st
            ELSE IF ch = "\"" THEN [st EXCEPT !.inString = TRUE]
            ELSE IF ch = "{"
                 THEN [st EXCEPT
                         !.objStart = IF st.curlyDepth = 0 THEN i ELSE @,
                         !.curlyDepth = @ + 1]
            ELSE IF ch = "}"
                 THEN IF st.curlyDepth - 1 = 0 /\ st.objStart # -1
                      THEN closing(parseObject(
                                     SubSeq(text, st.objStart + 1, i + 1)))
                      ELSE [st EXCEPT !.curlyDepth = @ - 1]
            ELSE st
  IN  IF from > to \/ st.threw THEN st
      ELSE IF from = to THEN round(from, text[from + 1])
      ELSE scanObjects(text, (from + to) \div 2 + 1, to,
                       scanObjects(text, from, (from + to) \div 2, st))

parseArrayFromTextChars(input) ==
  LET returned(array) == [threw |-> FALSE, value |-> array]
      scanned(st) == [threw |-> st.threw, value |-> st.results]
      located(text, start) ==
        IF start = -1 THEN returned(<<>>)
        ELSE scanned(scanObjects(text, start + 1, Len(text) - 1,
                                 [inString |-> FALSE, escape |-> FALSE,
                                  curlyDepth |-> 0, objStart |-> -1,
                                  results |-> <<>>, threw |-> FALSE]))
      direct(text, j) ==
        IF ~j.threw /\ j.val.t = "array" THEN returned(j.val.items)
        ELSE located(text, indexOf(text, <<"[">>))
      stripped(text) == direct(text, JSON_parse(text))
  IN  IF contentText(input) = <<>> THEN returned(<<>>)
      ELSE stripped(strippedText(input))

(***************************************************************************)
(* The texts parseArrayFromText is given: arrays that follow the output    *)
(* contract, arrays cut off by the token limit, arrays wrapped in prose,   *)
(* and texts that hold no array                                            *)
(***************************************************************************)
ArrayTexts ==
  {<<"[", "{", "\"", "a", "\"", ":", "1", "}", ",", "{", "\"", "b", "\"", ":", "\"", "x", "\"", "}", "]">>,
   <<"[", "]">>,
   <<"[", "1", ",", "-", "2", ".", "5", "e", "3", ",", "\"", "x", "\"", ",", "t", "r", "u", "e", ",", "n", "u", "l", "l", "]">>,
   <<" ", "[", " ", "{", "\"", "a", "\"", " ", ":", " ", "1", "}", " ", ",", " ", "{", "\"", "b", "\"", " ", ":", " ", "[", "2", ",", " ", "{", "\"", "c", "\"", ":", " ", "3", "}", "]", "}", " ", "]", " ">>,
   <<"[", "{", "\"", "a", "\"", ":", "1", "}", ",", "{", "\"", "b", "\"", ":", "2">>,
   <<"[", "{", "\"", "a", "\"", ":", "1", "}", ",", "{", "\"", "b", "\"", ":", "\"", "x", "}", "\"", "}", ",", "{", "\"", "c", "\"", ":">>,
   <<"[", "{", "\"", "a", "\"", ":", "\"", "\\", "\"", "}", "\"", "}", ",", "{", "\"", "b", "\"", ":", "1", "}">>,
   <<"[", "{", "\"", "a", "\"", ":", "\"", "x", "\\", "\\", "\"", "}", ",", "{", "\"", "b", "\"", ":", "1", "}">>,
   <<"[", "{", "\"", "a", "\"", ":", "\"", "]", "\"", "}", ",", "{", "\"", "b", "\"", ":", "\"", "[", "{", "\"", "}", ",">>,
   <<"S", "u", "r", "e", ":", " ", "[", "{", "\"", "a", "\"", ":", "1", "}", ",", "{", "\"", "b", "\"", ":", "2", "}", "]">>,
   <<"[", "{", "\"", "a", "\"", ":", "1", "}", ",", "{", "\"", "b", "\"", ":", "2", "}", "]", " ", "d", "o", "n", "e">>,
   <<"[", "{", "\"", "a", "\"", ":", "1", "}", "]", " ", "a", "n", "d", " ", "{", "\"", "b", "\"", ":", "2", "}">>,
   <<"[", "{", "\"", "a", "\"", ":", "1", "}", "]", "[", "{", "\"", "b", "\"", ":", "2", "}", "]">>,
   <<"[", "{", "\"", "a", "\"", ":", "1", "}", ",", " ", "}", ",", " ", "{", "\"", "b", "\"", ":", "2", "}", "]">>,
   <<"[", "}", "{", "\"", "a", "\"", ":", "1", "}", "]">>,
   <<"[", "[", "{", "\"", "a", "\"", ":", "1", "}", "]", ",", "{", "\"", "b", "\"", ":", "2", "}">>,
   <<"[", "{", "\"", "a", "\"", ":", "{", "\"", "n", "\"", ":", "[", "{", "\"", "z", "\"", ":", "1", "}", "]", "}", "}", ",", "{", "\"", "b", "\"", ":", "2", "}">>,
   <<"[", "{", "\"", "a", "\"", ":", "1", "}", ",", "{", "b", ":", "2", "}", ",", "{", "\"", "c", "\"", ":", "3", "}">>,
   <<"[", "{", "\"", "a", "\"", ":", "0", "1", "}", ",", "{", "\"", "c", "\"", ":", "3", "}", "]">>,
   <<"[", "{", "\"", "a", "\"", ":", "1", "}", ",", "]">>,
   <<"[", "1", ",", "{", "\"", "a", "\"", ":", "1", "}", ",", "\"", "x", "\"">>,
   <<"[", "{", "\"", "a", "\"", ":", "1", "}", ",", "{", "\"", "b", "\"", ":", "t", "r", "u">>,
   <<"{", "\"", "a", "\"", ":", "1", "}">>,
   <<"{", "\"", "i", "t", "e", "m", "s", "\"", ":", "[", "{", "\"", "a", "\"", ":", "1", "}", "]", "}">>,
   <<"\"", "[", "{", "}", "]", "\"">>,
   <<"7">>,
   <<"n", "o", " ", "a", "r", "r", "a", "y", " ", "h", "e", "r", "e">>,
   <<" ">>,
   <<"[", "{", "\"", "a", "\"", ":", "1", "}", "\n", ",", "{", "\"", "b", "\"", ":", "\"", "\\", "n", "\"", "}", "\n">>,
   <<"[", "{", "\"", "a", "\"", ":", "\"", "\n", "\"", "}", ",", "{", "\"", "b", "\"", ":", "1", "}">>}

\* the arguments: each text as it is, between code fences (with and without
\* the closing fence), behind a byte order mark, and as the content of a
\* chat completion that is passed as JSON text or as an object; completions
\* without a usable content; values that are neither string nor object
ParseInputs ==
  LET String(text) ==
        [kind |-> "string", text |-> text, value |-> Undefined,
         cyclic |-> FALSE]
      Object(value, cyclic) ==
        [kind |-> "object", text |-> <<>>, value |-> value,
         cyclic |-> cyclic]
      Other == [kind |-> "other", text |-> <<>>, value |-> Undefined,
                cyclic |-> FALSE]
      Fence == <<"<grave>", "<grave>", "<grave>">>
      Fenced(text, closed) ==
        Fence \o <<"j", "s", "o", "n">> \o <<"\n">> \o text
        \o (IF closed THEN <<"\n">> \o Fence ELSE <<>>)
      Str(s) == Json("string", s, <<>>)
      Obj(key, val) == Json("object", <<>>, <<Json("member", key, <<val>>)>>)
      Arr(items) == Json("array", <<>>, items)
      Choices(val) == Obj(<<"c", "h", "o", "i", "c", "e", "s">>, val)
      Completion(part, text) ==
        Choices(Arr(<<Obj(part, Obj(<<"c", "o", "n", "t", "e", "n", "t">>, Str(text)))>>))
      Odd ==
        {Choices(Arr(<<>>)),
         Choices(Json("literal", <<"n", "u", "l", "l">>, <<>>)),
         Choices(Json("number", <<"0">>, <<>>)),
         Choices(Str(<<"[", "{", "}", "]">>)),
         Choices(Arr(<<Obj(<<"m", "e", "s", "s", "a", "g", "e">>,
                           Obj(<<"c", "o", "n", "t", "e", "n", "t">>,
                               Arr(<<Obj(<<"a">>, Str(<<"b">>))>>)))>>)),
         Choices(Obj(<<"0">>, Obj(<<"d", "e", "l", "t", "a">>, Obj(<<"c", "o", "n", "t", "e", "n", "t">>, Str(<<"[", "{", "}", "]">>))))),
         Obj(<<"e", "r", "r", "o", "r">>, Str(<<"o", "v", "e", "r", "l", "o", "a", "d", "e", "d", " ", "[", "1", "]">>)),
         Arr(<<Obj(<<"a">>, Str(<<"b">>)), Str(<<"c">>)>>)}
      Parts == {<<"m", "e", "s", "s", "a", "g", "e">>, <<"d", "e", "l", "t", "a">>}
  IN  {String(text) : text \in ArrayTexts}
      \cup {String(Fenced(text, closed)) :
              text \in ArrayTexts, closed \in BOOLEAN}
      \cup {String(<<Bom>> \o text) : text \in ArrayTexts}
      \cup {String(JSON_stringify(Completion(part, text))) :
              part \in Parts, text \in ArrayTexts}
      \cup {String(JSON_stringify(odd)) : odd \in Odd}
      \cup {Object(Completion(part, text), cyclic) :
              part \in Parts, text \in ArrayTexts, cyclic \in BOOLEAN}
      \cup {Object(odd, cyclic) : odd \in Odd, cyclic \in BOOLEAN}
      \cup {String(<<>>), String(Fence), String(Fence \o <<"[", "{", "}", "]">> \o Fence),
            Other}

InitParse ==
  /\ tab = 1
  /\ fillsLeft = 0
  /\ InitContent
  /\ InitGateway
  /\ InitDateIdle
  /\ InitResolveIdle
  /\ callInput \in ParseInputs
  /\ callResult = <<>>
  /\ callPc = "start"

\* const parsed = this.parseArrayFromText(res)
ParseReply ==
  /\ callPc = "start"
  /\ LET given(res) ==
           /\ callResult' = res.value
           /\ callPc' = IF res.threw THEN "threw" ELSE "returned"
     IN  given(parseArrayFromTextChars(callInput))
  /\ UNCHANGED <<tab, contentVars, gatewayVars, fillsLeft, clicks, dateVars,
                 resolveVars, callInput>>

SpecParse == InitParse /\ [][ParseReply]_vars

(***************************************************************************)
(* Properties of parseArrayFromText                                        *)
(***************************************************************************)
\* C11 (the parser never throws): for every argument (a string, an object,
\* null or a number; well-formed, fenced, truncated or garbage)
\* parseArrayFromText returns a sequence, possibly empty.
ParserNeverThrows ==
  /\ callPc # "threw"
  /\ callPc = "returned" => DOMAIN callResult = 1..Len(callResult)

\* a truncated array with a malformed object in it was parsed: the
\* SyntaxError of the malformed object was swallowed and the complete
\* objects around it were returned
ParserNeverThrowsWitness ==
  /\ callPc = "returned"
  /\ callInput.kind = "string"
  /\ JSON_parse(strippedText(callInput)).threw
  /\ \E i \in 1..(Len(callInput.text) - 4) :
       SubSeq(callInput.text, i, i + 4) = <<"{", "b", ":", "2", "}">>
  /\ Len(callResult) = 2

\* C12 (truncation tolerance): when the direct JSON.parse of the text
\* fails, parseArrayFromText returns exactly the complete {...} objects
\* that are elements of the outermost array, the one the first '[' opens,
\* in order, each parsed on its own; an incomplete trailing object and an
\* object that fails to parse are skipped, braces and brackets inside
\* string literals do not count, and nothing outside the outermost array is
\* returned.
TruncationTolerance ==
  LET expected(text) ==
        LET Outside == [inString |-> FALSE, escape |-> FALSE, curly |-> 0,
                        square |-> 1, objStart |-> 0, spans |-> <<>>]
            \* the character at position i, read in the state st
            read(i, st) ==
              IF st.square = 0 THEN st
              ELSE IF st.inString
                   THEN IF st.escape THEN [st EXCEPT !.escape = FALSE]
                        ELSE IF text[i] = "\\" THEN [st EXCEPT !.escape = TRUE]
                        ELSE IF text[i] = "\""
                             THEN [st EXCEPT !.inString = FALSE]
                        ELSE st
              ELSE IF text[i] = "\"" THEN [st EXCEPT !.inString = TRUE]
              ELSE IF text[i] = "{"
                   THEN [st EXCEPT
                           !.objStart = IF st.curly = 0 /\ st.square = 1
                                        THEN i ELSE @,
                           !.curly = @ + 1]
              ELSE IF text[i] = "}"
                   THEN IF st.curly = 0 THEN st
                        ELSE IF st.curly = 1 /\ st.objStart # 0
                             THEN [st EXCEPT
                                     !.curly = 0, !.objStart = 0,
                                     !.spans = Append(@, <<st.objStart, i>>)]
                        ELSE [st EXCEPT !.curly = @ - 1]
              ELSE IF text[i] = "[" /\ st.curly = 0
                   THEN [st EXCEPT !.square = @ + 1]
              ELSE IF text[i] = "]" /\ st.curly = 0
                   THEN [st EXCEPT !.square = @ - 1]
              ELSE st
            RECURSIVE readRange(_, _, _)
            readRange(from, to, st) ==
              IF from > to THEN st
              ELSE IF from = to THEN read(from, st)
              ELSE readRange((from + to) \div 2 + 1, to,
                             readRange(from, (from + to) \div 2, st))
            RECURSIVE objects(_)
            objects(spans) ==
              IF spans = <<>> THEN <<>>
              ELSE LET kept(r) == IF r.threw THEN <<>> ELSE <<r.val>>
                   IN  kept(JSON_parse(SubSeq(text, spans[1][1], spans[1][2])))
                       \o objects(Tail(spans))
        IN  IF indexOf(text, <<"[">>) = -1 THEN <<>>
            ELSE objects(readRange(indexOf(text, <<"[">>) + 2, Len(text),
                                   Outside).spans)
  IN  (/\ callPc = "returned"
       /\ contentText(callInput) # <<>>
       /\ JSON_parse(strippedText(callInput)).threw)
        => callResult = expected(strippedText(callInput))


(***************************************************************************)
(* The acceptance loop of analyzeWithFullHtml (lines 1238-1297) on the     *)
(* reply to one batch                                                      *)
(***************************************************************************)
\* what the run has in hand when a reply arrives: the page, the collected
\* elements and their descriptors
Analyzed(page) ==
  LET described(elements) ==
        [page |-> page, elements |-> elements,
         fieldsJson |-> createFieldsJson(page, elements)]
  IN  described(collectAllFormElements(page))

\* The replies to a batch, as parseArrayFromText returns them, with the
\* page they belong to and the start of the batch:
\*  - on every short form (two text inputs and a <select> for the work
\*    authorization, collected as the fields 0, 1 and 2), one suggestion
\*    for the <select>;
\*  - on the short form whose <select> has no option yes, two suggestions
\*    for the text inputs and, before, between or after them, an element
\*    that is discarded or a second suggestion for field 0;
\*  - on the application form, for each of its three batches, one
\*    suggestion that names a field of the form by its key, by its index or
\*    by its id.
AcceptInputs ==
  LET \* the ways the <select> is identified: the name and the id of the
      \* element
      Identities ==
        {[name |-> <<"w", "o", "r", "k", "_", "a", "u", "t", "h", "o", "r", "i", "z", "a", "t", "i", "o", "n">>, id |-> <<"w", "o", "r", "k", "_", "a", "u", "t", "h", "o", "r", "i", "z", "a", "t", "i", "o", "n">>],
         [name |-> <<"w", "o", "r", "k", "_", "a", "u", "t", "h", "o", "r", "i", "z", "a", "t", "i", "o", "n">>, id |-> <<"w", "a", "-", "1">>],
         [name |-> <<"a", "u", "t", "h">>, id |-> <<"w", "o", "r", "k", "_", "a", "u", "t", "h", "o", "r", "i", "z", "a", "t", "i", "o", "n">>],
         [name |-> <<"s", "o", "u", "r", "c", "e">>, id |-> <<"w", "o", "r", "k", "_", "a", "u", "t", "h", "o", "r", "i", "z", "a", "t", "i", "o", "n">>]}
      \* the option lists of the <select>: one option whose value is yes in
      \* some case, two of them, none (the text of an option says Yes, its
      \* value does not), and one whose value attribute has a blank before
      \* the word
      NoYes == <<Option(<<>>, <<"S", "e", "l", "e", "c", "t", ".", ".", ".">>), Option(<<"n">>, <<"N", "o">>), Option(<<"y">>, <<"Y", "e", "s">>)>>
      OptionLists ==
        {<<Option(<<>>, <<"S", "e", "l", "e", "c", "t", ".", ".", ".">>), Option(<<"Y", "e", "s">>, <<"Y", "e", "s", ",", " ", "a", "u", "t", "h", "o", "r", "i", "z", "e", "d">>), Option(<<"n", "o">>, <<"N", "o">>)>>,
         <<Option(<<>>, <<"S", "e", "l", "e", "c", "t", ".", ".", ".">>), Option(<<"n", "o">>, <<"N", "o">>), Option(<<"Y", "E", "S">>, <<"A", "u", "t", "h", "o", "r", "i", "z", "e", "d">>),
           Option(<<"y", "e", "s">>, <<"C", "i", "t", "i", "z", "e", "n">>)>>,
         NoYes,
         <<Option(<<>>, <<"S", "e", "l", "e", "c", "t", ".", ".", ".">>), Option(<<" ", "y", "e", "s">>, <<"A", "u", "t", "h", "o", "r", "i", "z", "e", "d">>), Option(<<"n", "o">>, <<"N", "o">>)>>}
      ShortPage(identity, options) ==
        [forms |-> <<[id |-> <<"a", "p", "p", "l", "y">>, name |-> <<"a", "p", "p", "l", "y">>,
                      action |-> <<"h", "t", "t", "p", "s", ":", "/", "/", "j", "o", "b", "s", ".", "e", "x", "a", "m", "p", "l", "e", "/", "a", "p", "p", "l", "y">>, method |-> <<"p", "o", "s", "t">>]>>,
         nodes |->
           <<LabelledInput(<<"t", "e", "x", "t">>, <<"f", "i", "r", "s", "t", "_", "n", "a", "m", "e">>, <<"F", "i", "r", "s", "t", " ", "N", "a", "m", "e">>),
             LabelledInput(<<"t", "e", "x", "t">>, <<"l", "a", "s", "t", "_", "n", "a", "m", "e">>, <<"L", "a", "s", "t", " ", "N", "a", "m", "e">>),
             [LabelledSelect(identity.id, <<"W", "o", "r", "k", " ", "a", "u", "t", "h", "o", "r", "i", "z", "a", "t", "i", "o", "n">>, options)
                EXCEPT !.name = identity.name]>>]
      \* the array elements that are discarded: one that names no field,
      \* one with a blank value, one with no value, one whose choice is not
      \* an option of the <select> that has no default, a number, and null
      Invalids ==
        {[NoItem EXCEPT !.index = <<9>>, !.value = <<"x">>],
         [NoItem EXCEPT !.index = <<1>>, !.value = <<" ", " ">>],
         [NoItem EXCEPT !.index = <<1>>],
         [NoItem EXCEPT !.index = <<2>>, !.value = <<"m", "a", "y", "b", "e">>],
         NoItem,
         [NoItem EXCEPT !.null = TRUE]}
      Reply1(page, start, items) ==
        [page |-> page, start |-> start, items |-> items]
      Ann == [NoItem EXCEPT !.index = <<0>>, !.value = <<"A", "n", "n">>]
      Lee == [NoItem EXCEPT !.index = <<1>>, !.value = <<" ", "L", "e", "e", " ">>]
      Bob == [NoItem EXCEPT !.index = <<0>>, !.value = <<"B", "o", "b">>]
      Around(x) == {<<x, Ann, Lee>>, <<Ann, x, Lee>>, <<Ann, Lee, x>>}
      Named(fieldsJson, i) ==
        {[NoItem EXCEPT !.key = fieldsJson[i + 1].stableKey, !.value = <<"x">>],
         [NoItem EXCEPT !.index = <<i>>, !.value = <<"x">>],
         [NoItem EXCEPT !.id = fieldsJson[i + 1].id, !.value = <<"x">>],
         Suggest(fieldsJson, i, <<"x">>)}
  IN  {Reply1(ShortPage(identity, options), 0,
              <<[NoItem EXCEPT !.index = <<2>>, !.value = value]>>) :
         identity \in Identities, options \in OptionLists,
         value \in {<<"m", "a", "y", "b", "e">>, <<" ", "A", "u", "t", "h", "o", "r", "i", "z", "e", "d", " ">>, <<"y", "e", "s">>, <<"N", "O">>}}
      \cup {Reply1(ShortPage([name |-> <<"w", "o", "r", "k", "_", "a", "u", "t", "h", "o", "r", "i", "z", "a", "t", "i", "o", "n">>,
                              id |-> <<"w", "o", "r", "k", "_", "a", "u", "t", "h", "o", "r", "i", "z", "a", "t", "i", "o", "n">>], NoYes),
                   0, items) :
              items \in UNION {Around(x) : x \in Invalids \cup {Bob}}}
      \cup {Reply1(ApplicationPage, start, <<item>>) :
              start \in {0, batchSize, 2 * batchSize},
              item \in UNION {Named(Collected[1].fieldsJson, i) :
                                i \in {0, 5, 23, 24, 30, 47, 48}}}

InitAccept ==
  /\ tab = 1
  /\ fillsLeft = 0
  /\ InitContent
  /\ InitGateway
  /\ InitDateIdle
  /\ InitResolveIdle
  /\ callInput \in AcceptInputs
  /\ callResult = <<>>
  /\ callPc = "start"

\* parsed.forEach(item => { ... }) inside the try block of one batch, for a
\* run that has accepted nothing yet
AcceptReply ==
  /\ callPc = "start"
  /\ LET looped(acc) ==
           /\ callResult' = acc.identifiedFields
           /\ callPc' = IF acc.threw THEN "threw" ELSE "returned"
         analyzed(an) ==
           looped(acceptItems([identifiedFields |-> <<>>, usedIndices |-> {},
                               discarded |-> 0, threw |-> FALSE],
                              callInput.items, 1, an.page, an.elements,
                              an.fieldsJson, 1, callInput.start))
     IN  analyzed(Analyzed(callInput.page))
  /\ UNCHANGED <<tab, contentVars, gatewayVars, fillsLeft, clicks, dateVars,
                 resolveVars, callInput>>

SpecAccept == InitAccept /\ [][AcceptReply]_vars


(***************************************************************************)
(* Properties of the acceptance loop                                       *)
(***************************************************************************)
\* C13 as stated (select validation for work_authorization): when the one
\* suggestion of a reply targets a <select> whose name or id is
\* work_authorization and its value matches no option's value or text
\* (case-insensitively), the suggestion is accepted with the value of an
\* option whose value equals "yes" case-insensitively if there is one, and
\* dropped otherwise.
WorkAuthorizationDefault ==
  LET same(a, b) == toLowerCase(a) = toLowerCase(b)
      expected(node, value) ==
        LET yes == {o \in DOMAIN node.options :
                      same(node.options[o].value, <<"y", "e", "s">>)}
        IN  IF yes = {} THEN callResult = <<>>
            ELSE /\ Len(callResult) = 1
                 /\ callResult[1].index = 2
                 /\ \E o \in yes :
                      callResult[1].suggestedValue = node.options[o].value
      unmatched(node, value) ==
        \A o \in DOMAIN node.options :
          /\ ~same(node.options[o].value, value)
          /\ ~same(node.options[o].text, value)
      selected(node, value) ==
        (/\ <<"w", "o", "r", "k", "_", "a", "u", "t", "h", "o", "r", "i", "z", "a", "t", "i", "o", "n">> \in {node.name, node.id}
         /\ unmatched(node, value)) => expected(node, value)
  IN  (/\ callPc = "returned"
       /\ Len(callInput.page.nodes) = 3
       /\ Len(callInput.items) = 1
       /\ callInput.items[1].index = <<2>>)
        => selected(callInput.page.nodes[3], trim(callInput.items[1].value))

\* C13 as the code has it: when the one suggestion of a reply targets a
\* <select> whose name or id is work_authorization, neither being source
\* (the rule for source comes first in the code), and its trimmed value
\* matches no option's trimmed value or text (case-insensitively), the
\* suggestion is accepted with the trimmed value of the first option whose
\* trimmed value equals "yes" case-insensitively if there is one, and
\* dropped otherwise.
WorkAuthorizationDefaultTrimmed ==
  LET same(a, b) == toLowerCase(trim(a)) = toLowerCase(trim(b))
      expected(node, value) ==
        LET yes == {o \in DOMAIN node.options :
                      same(node.options[o].value, <<"y", "e", "s">>)}
        IN  IF yes = {} THEN callResult = <<>>
            ELSE /\ Len(callResult) = 1
                 /\ callResult[1].index = 2
                 /\ \E o \in yes :
                      /\ \A p \in yes : o <= p
                      /\ callResult[1].suggestedValue
                           = trim(node.options[o].value)
      unmatched(node, value) ==
        \A o \in DOMAIN node.options :
          /\ ~same(node.options[o].value, value)
          /\ ~same(node.options[o].text, value)
      selected(node, value) ==
        (/\ <<"w", "o", "r", "k", "_", "a", "u", "t", "h", "o", "r", "i", "z", "a", "t", "i", "o", "n">> \in {node.name, node.id}
         /\ <<"s", "o", "u", "r", "c", "e">> \notin {node.name, node.id}
         /\ unmatched(node, value)) => expected(node, value)
  IN  (/\ callPc = "returned"
       /\ Len(callInput.page.nodes) = 3
       /\ Len(callInput.items) = 1
       /\ callInput.items[1].index = <<2>>)
        => selected(callInput.page.nodes[3], callInput.items[1].value)

\* the choice "maybe" for a <select> identified by its id only, whose
\* options hold YES before yes, was accepted as YES
WorkAuthorizationDefaultWitness ==
  /\ callPc = "returned"
  /\ Len(callInput.page.nodes) = 3
  /\ callInput.page.nodes[3].name = <<"a", "u", "t", "h">>
  /\ callInput.page.nodes[3].id = <<"w", "o", "r", "k", "_", "a", "u", "t", "h", "o", "r", "i", "z", "a", "t", "i", "o", "n">>
  /\ \E o \in DOMAIN callInput.page.nodes[3].options :
       callInput.page.nodes[3].options[o].value = <<"y", "e", "s">>
  /\ callInput.items = <<[NoItem EXCEPT !.index = <<2>>, !.value = <<"m", "a", "y", "b", "e">>]>>
  /\ Len(callResult) = 1
  /\ callResult[1].suggestedValue = <<"Y", "E", "S">>


\* C19 (every accepted suggestion targets a field of its batch): every
\* entry pushed while the reply to the batch that begins at start is
\* processed belongs to a field listed in the prompt of that batch, not to
\* a field of an earlier or a later batch nor to a field excluded from all
\* batches.
AcceptedWithinBatch ==
  LET within(an) ==
        \A e \in DOMAIN callResult :
          callResult[e].index
            \in chunk(an.page, an.elements, an.fieldsJson, callInput.start)
  IN  callPc \in {"returned", "threw"} => within(Analyzed(callInput.page))

\* C20 (per-suggestion recovery): the entries pushed for a reply are those
\* of its valid items, in order; an item is valid when it is an object that
\* resolves to a field no earlier valid item of the reply claimed, has a
\* value that is not blank and, for a <select>, names an option or has a
\* default.  Every other element of the array is dropped on its own.
PerSuggestionRecovery ==
  LET items == callInput.items
      matches(node, value) ==
        \E o \in DOMAIN node.options :
          \/ normOption(node.options[o].value) = normOption(value)
          \/ normOption(node.options[o].text) = normOption(value)
      chosen(node, value) ==
        IF node.tagName = <<"S", "E", "L", "E", "C", "T">> /\ ~matches(node, value)
        THEN selectDefault(node) ELSE value
      valued(item) == item.value # Null /\ trim(item.value) # <<>>
      expected(an) ==
        LET nodeOf(idx) == an.page.nodes[an.elements[idx + 1].element]
            RECURSIVE from(_, _)
            from(k, claimed) ==
              IF k > Len(items) THEN <<>>
              ELSE LET idx == IF items[k].null THEN -1
                              ELSE resolveFieldIndex(items[k], an.fieldsJson)
                       value == IF idx # -1 /\ idx \notin claimed /\ valued(items[k])
                                THEN chosen(nodeOf(idx), items[k].value)
                                ELSE Null
                   IN  IF value = Null THEN from(k + 1, claimed)
                       ELSE <<[index |-> idx, value |-> trim(value)]>>
                            \o from(k + 1, claimed \cup {idx})
        IN  from(1, {})
  IN  callPc \in {"returned", "threw"}
        => [e \in DOMAIN callResult |->
              [index |-> callResult[e].index,
               value |-> callResult[e].suggestedValue]]
           = expected(Analyzed(callInput.page))


(***************************************************************************)
(* FormAnalyzer.computeStableKey on pairs of descriptors                   *)
(***************************************************************************)
\* Pairs of descriptors: a descriptor of the application form or of the
\* contact form, with parent labels, nearby text and a placeholder, next to
\*  - itself under another index, required flag, class and attribute list;
\*  - the same with its texts in upper case, with white space around them
\*    and with longer runs of white space inside them, or both;
\*  - the same with another name, another form position, another order in
\*    the form or other parent labels;
\*  - another descriptor.
KeyInputs ==
  LET upper(s) ==
        LET UpperCase == <<"A", "B", "C", "D", "E", "F", "G", "H", "I", "J", "K", "L", "M", "N", "O", "P", "Q", "R", "S", "T", "U", "V", "W", "X", "Y", "Z">>
            LowerCase == <<"a", "b", "c", "d", "e", "f", "g", "h", "i", "j", "k", "l", "m", "n", "o", "p", "q", "r", "s", "t", "u", "v", "w", "x", "y", "z">>
        IN  [i \in DOMAIN s |->
               IF \E c \in DOMAIN LowerCase : LowerCase[c] = s[i]
               THEN UpperCase[CHOOSE c \in DOMAIN LowerCase : LowerCase[c] = s[i]]
               ELSE s[i]]
      spaced(s) ==
        IF s = <<>> THEN s
        ELSE <<" ", "\t">>
             \o Concat([i \in DOMAIN s |->
                          IF s[i] = " " THEN <<" ", "\n", " ">> ELSE <<s[i]>>])
             \o <<"\n">>
      each(list, f(_)) == <<>> \o [i \in DOMAIN list |-> f(list[i])]
      texts(fj, f(_)) ==
        [fj EXCEPT !.type = f(@), !.tagName = f(@), !.id = f(@),
                   !.name = f(@), !.label = f(@), !.placeholder = f(@),
                   !.formId = f(@), !.formName = f(@), !.formAction = f(@),
                   !.formMethod = f(@), !.cssPath = f(@),
                   !.parentLabels = each(@, f), !.nearbyText = each(@, f)]
      both(s) == spaced(upper(s))
      Described(fj, index, required, className, attributes) ==
        [index |-> index, required |-> required, className |-> className,
         attributes |-> attributes] @@ fj
      First(fj) == Described(fj, fj.index, FALSE, <<>>, <<>>)
      Second(fj) ==
        Described(fj, fj.index + 5, TRUE, <<"f", "o", "r", "m", "-", "c", "o", "n", "t", "r", "o", "l">>,
                  <<[name |-> <<"a", "u", "t", "o", "c", "o", "m", "p", "l", "e", "t", "e">>, value |-> <<"o", "f", "f">>]>>)
      Enriched(fj) ==
        [fj EXCEPT !.placeholder = <<"Y", "o", "u", "r", " ", "a", "n", "s", "w", "e", "r">>,
                   !.parentLabels = <<<<"P", "e", "r", "s", "o", "n", "a", "l", " ", "D", "e", "t", "a", "i", "l", "s">>>>,
                   !.nearbyText = <<<<"R", "e", "q", "u", "i", "r", "e", "d">>, <<"A", "s", " ", "i", "n", " ", "y", "o", "u", "r", " ", "p", "a", "s", "s", "p", "o", "r", "t">>>>]
      Bases ==
        {Enriched(Collected[1].fieldsJson[i]) : i \in {1, 5, 9, 48}}
        \cup {Enriched(Collected[2].fieldsJson[i]) : i \in {1, 3}}
      Variants(fj) ==
        {fj, texts(fj, upper), texts(fj, spaced), texts(fj, both),
         [fj EXCEPT !.name = @ \o <<"2">>],
         [fj EXCEPT !.formIndex = @ + 1],
         [fj EXCEPT !.orderWithinForm = @ + 1],
         [fj EXCEPT !.parentLabels = <<>>],
         [fj EXCEPT !.nearbyText = <<<<"R", "e", "q", "u", "i", "r", "e", "d", " ", "A", "s", " ", "i", "n", " ", "y", "o", "u", "r", " ", "p", "a", "s", "s", "p", "o", "r", "t">>>>]}
  IN  {[a |-> First(fj), b |-> Second(other)] :
         fj \in Bases, other \in Bases}
      \cup UNION {{[a |-> First(fj), b |-> Second(variant)] :
                     variant \in Variants(fj)} : fj \in Bases}

InitKey ==
  /\ tab = 1
  /\ fillsLeft = 0
  /\ InitContent
  /\ InitGateway
  /\ InitDateIdle
  /\ InitResolveIdle
  /\ callInput \in KeyInputs
  /\ callResult = <<>>
  /\ callPc = "start"

\* rec.stableKey = this.computeStableKey(rec), for the two descriptors
ComputeKeys ==
  /\ callPc = "start"
  /\ callResult' = <<computeStableKey(callInput.a),
                     computeStableKey(callInput.b)>>
  /\ callPc' = "returned"
  /\ UNCHANGED <<tab, contentVars, gatewayVars, fillsLeft, clicks, dateVars,
                 resolveVars, callInput>>

SpecKey == InitKey /\ [][ComputeKeys]_vars

\* C14 (idempotent descriptor keying): two descriptors whose type, tag, id,
\* name, label, placeholder, form identity (id, name, action, method), form
\* position (form index, order within the form), parent labels, nearby
\* text and cssPath agree after trimming, lower-casing and collapsing of
\* white space get the same stableKey, whatever their index, required
\* flag, class name and attributes.
StableKeyIdempotent ==
  LET n(v) == collapseSpaces(toLowerCase(trim(v)))
      structural(fj) ==
        <<n(fj.type), n(fj.tagName), n(fj.id), n(fj.name), n(fj.label),
          n(fj.placeholder), n(fj.formId), n(fj.formName), n(fj.formAction),
          n(fj.formMethod), fj.formIndex, fj.orderWithinForm,
          <<>> \o [i \in DOMAIN fj.parentLabels |-> n(fj.parentLabels[i])],
          <<>> \o [i \in DOMAIN fj.nearbyText |-> n(fj.nearbyText[i])],
          n(fj.cssPath)>>
  IN  (callPc = "returned"
       /\ structural(callInput.a) = structural(callInput.b))
        => callResult[1] = callResult[2]

\* two descriptors that differ in index, required flag, class name and
\* attributes, and in the case and the white space of their label and
\* parent labels, got the same key
StableKeyIdempotentWitness ==
  /\ callPc = "returned"
  /\ callInput.a.index # callInput.b.index
  /\ callInput.a.required # callInput.b.required
  /\ callInput.a.className # callInput.b.className
  /\ callInput.a.attributes # callInput.b.attributes
  /\ callInput.a.label # callInput.b.label
  /\ Len(callInput.b.label) > Len(callInput.a.label)
  /\ toLowerCase(callInput.b.label) # callInput.b.label
  /\ callInput.a.parentLabels # callInput.b.parentLabels
  /\ callResult[1] = callResult[2]


(***************************************************************************)
(* Properties of the run: batches, cancellation, teardown, empty pages     *)
(***************************************************************************)
\* C15 (batches are strictly sequential): the bridge of the content script
\* never holds two PROMPT requests that are pending at once.
NoTwoPromptsPending ==
  Cardinality({id \in pending : requestType(Store, id) = "PROMPT"}) <= 1

\* C16 (cancellation is idempotent and safe at any point): whenever a call
\* of cancelProcessing ends (in the task of the click when there is no
\* session, after its destroy otherwise) no exception has escaped, the
\* cancellation flag is set, no request posted before the cancel is
\* pending, currentSessionId is null and isProcessing is false.
CancelEndsSafely ==
  [][LET ended ==
           (IF clicks' # clicks /\ currentSessionId = 0 THEN {seq + 1} ELSE {})
           \cup (cancels \ cancels')
     IN  \A c \in ended :
           /\ uncaught' = uncaught
           /\ isCancelled'
           /\ \A p \in pending' : p >= c
           /\ currentSessionId' = 0
           /\ ~isProcessing']_vars

\* C17 (cleanup never raises): when the DESTROY awaited by the finally
\* block of a run or by cancelProcessing is rejected (by a cancel) or times
\* out, the run or the cancel still completes: currentSessionId is null,
\* isProcessing is false and processingComplete has been sent.
CleanupNeverRaises ==
  [][LET \* the step settles the request otherwise than by its reply
         failed(id) ==
           /\ id \in pending
           /\ id \notin pending'
           /\ \/ clicks' # clicks
              \/ /\ Len(wq') >= Len(wq)
                 /\ SubSeq(wq', 1, Len(wq)) = wq
         torndown(id) ==
           /\ \A r \in RunIds :
                (runs[r].pc = "destroy" /\ runs[r].waitId = id)
                  => runs'[r].pc = "done"
           /\ id \notin cancels'
           /\ currentSessionId' = 0
           /\ ~isProcessing'
           /\ completes' > completes
     IN  \A id \in pending :
           (failed(id) /\ requestType(Store, id) = "DESTROY")
             => torndown(id)]_vars

\* the destroy of the finally block of a run was rejected or timed out, and
\* the run has ended
CleanupNeverRaisesWitness ==
  \E r \in RunIds :
    /\ runs[r].cleanupFailed
    /\ runs[r].pc = "done"
    /\ runs[r].sessionId # 0
    /\ currentSessionId = 0
    /\ ~isProcessing
    /\ completes >= 1

\* C18 (collection-empty early exit): on a page where
\* collectAllFormElements finds no field, every run ends in the task that
\* started it: no request is posted (no session, no PROMPT), no error is
\* alerted or thrown, isProcessing is false again and one
\* processingComplete is sent per run.
EmptyCollectionExit ==
  Len(Collected[tab].elements) = 0
    => /\ seq = 0 /\ pending = {} /\ wq = <<>>
       /\ sidCounter = 0 /\ sessions = {} /\ fetches = {}
       /\ alerts = {} /\ uncaught = 0
       /\ ~isProcessing /\ ~loadingOverlay
       /\ \A r \in RunIds : /\ runs[r].pc \in {"idle", "done"}
                            /\ runs[r].error = ""
                            /\ runs[r].sent = {}
       /\ completes = Cardinality({r \in RunIds : runs[r].pc = "done"})

\* a run on the page without fields has ended
EmptyCollectionExitWitness ==
  /\ Len(Collected[tab].elements) = 0
  /\ \E r \in RunIds : runs[r].pc = "done"
  /\ completes >= 1
  /\ seq = 0
  /\ ~isProcessing


(***************************************************************************)
(* The two places that choose a default for a <select>: the acceptance     *)
(* loop (lines 1256-1283) and addMissingDefaults (lines 1364-1435)         *)
(***************************************************************************)
\* A form of one text input (field 0) and one <select> (field 1) that is
\* named or identified as source, work_authorization or position, with
\* option lists that hold the preferred values of each role, hold them in
\* another case or inside a longer word, hold them in the text only, begin
\* with a placeholder option of empty value, or are empty.
DefaultInputs ==
  LET Roles == {<<"s", "o", "u", "r", "c", "e">>, <<"w", "o", "r", "k", "_", "a", "u", "t", "h", "o", "r", "i", "z", "a", "t", "i", "o", "n">>, <<"p", "o", "s", "i", "t", "i", "o", "n">>}
      Placeholder == Option(<<>>, <<"S", "e", "l", "e", "c", "t", ".", ".", ".">>)
      OptionLists ==
        {<<Placeholder, Option(<<"s", "e", "a", "r", "c", "h", "_", "e", "n", "g", "i", "n", "e">>, <<"S", "e", "a", "r", "c", "h", " ", "e", "n", "g", "i", "n", "e">>), Option(<<"o", "t", "h", "e", "r">>, <<"O", "t", "h", "e", "r">>)>>,
         <<Placeholder, Option(<<"f", "r", "i", "e", "n", "d">>, <<"A", " ", "f", "r", "i", "e", "n", "d">>), Option(<<"o", "t", "h", "e", "r">>, <<"O", "t", "h", "e", "r">>)>>,
         <<Placeholder, Option(<<"Y", "e", "s">>, <<"Y", "e", "s">>), Option(<<"n", "o">>, <<"N", "o">>)>>,
         <<Placeholder, Option(<<"1">>, <<"Y", "e", "s", ",", " ", "I", " ", "a", "m">>), Option(<<"0">>, <<"N", "o">>)>>,
         <<Placeholder, Option(<<"y", "e", "s", "_", "s", "p", "o", "n", "s", "o", "r">>, <<"W", "i", "t", "h", " ", "s", "p", "o", "n", "s", "o", "r", "s", "h", "i", "p">>), Option(<<"n", "o">>, <<"N", "o">>)>>,
         <<Placeholder, Option(<<"c", "i", "t", "i", "z", "e", "n">>, <<"C", "i", "t", "i", "z", "e", "n">>), Option(<<"v", "i", "s", "a">>, <<"V", "i", "s", "a", " ", "h", "o", "l", "d", "e", "r">>)>>,
         <<Placeholder, Option(<<"d", "e", "s", "i", "g", "n", "e", "r">>, <<"D", "e", "s", "i", "g", "n", "e", "r">>), Option(<<"s", "o", "f", "t", "w", "a", "r", "e", "_", "e", "n", "g", "i", "n", "e", "e", "r">>, <<"S", "o", "f", "t", "w", "a", "r", "e", " ", "E", "n", "g", "i", "n", "e", "e", "r">>)>>,
         <<Placeholder, Option(<<"d", "e", "s", "i", "g", "n", "e", "r">>, <<"D", "e", "s", "i", "g", "n", "e", "r">>), Option(<<"S", "o", "f", "t", "w", "a", "r", "e", "_", "E", "n", "g", "i", "n", "e", "e", "r">>, <<"S", "o", "f", "t", "w", "a", "r", "e", " ", "E", "n", "g", "i", "n", "e", "e", "r">>)>>,
         <<Option(<<"f", "r", "i", "e", "n", "d">>, <<"A", " ", "f", "r", "i", "e", "n", "d">>), Option(<<"c", "i", "t", "i", "z", "e", "n">>, <<"C", "i", "t", "i", "z", "e", "n">>)>>,
         <<Placeholder>>,
         <<>>}
      Form(role, byName, options) ==
        [forms |-> <<[id |-> <<"a", "p", "p", "l", "y">>, name |-> <<"a", "p", "p", "l", "y">>,
                      action |-> <<"h", "t", "t", "p", "s", ":", "/", "/", "j", "o", "b", "s", ".", "e", "x", "a", "m", "p", "l", "e", "/", "a", "p", "p", "l", "y">>, method |-> <<"p", "o", "s", "t">>]>>,
         nodes |->
           <<LabelledInput(<<"t", "e", "x", "t">>, <<"f", "i", "r", "s", "t", "_", "n", "a", "m", "e">>, <<"F", "i", "r", "s", "t", " ", "N", "a", "m", "e">>),
             [LabelledSelect(IF byName THEN <<"f", "-", "2">> ELSE role, <<"P", "l", "e", "a", "s", "e", " ", "c", "h", "o", "o", "s", "e">>, options)
                EXCEPT !.name = IF byName THEN role ELSE <<"f", "2">>]>>]
  IN  {[page |-> Form(role, byName, options), role |-> role] :
         role \in Roles, byName \in BOOLEAN, options \in OptionLists}

InitDefaults ==
  /\ tab = 1
  /\ fillsLeft = 0
  /\ InitContent
  /\ InitGateway
  /\ InitDateIdle
  /\ InitResolveIdle
  /\ callInput \in DefaultInputs
  /\ callResult = <<>>
  /\ callPc = "start"

\* for the <select> of the form: the entries pushed when the reply suggests
\* a choice that is none of its options (fallback), and the entries pushed
\* by addMissingDefaults when the replies held nothing for it (backfill)
ChooseDefaults ==
  /\ callPc = "start"
  /\ LET empty == [identifiedFields |-> <<>>, usedIndices |-> {},
                   discarded |-> 0, threw |-> FALSE]
         chosen(an) ==
           [fallback |->
              acceptItems(empty,
                          <<[NoItem EXCEPT !.index = <<1>>,
                                           !.value = <<"n", "o", " ", "s", "u", "c", "h", " ", "o", "p", "t", "i", "o", "n">>]>>,
                          1, an.page, an.elements, an.fieldsJson, 1, 0)
                .identifiedFields,
            backfill |->
              addMissingDefaults(empty, an.page, an.elements, an.fieldsJson, 1)
                .identifiedFields]
     IN  callResult' = chosen(Analyzed(callInput.page))
  /\ callPc' = "returned"
  /\ UNCHANGED <<tab, contentVars, gatewayVars, fillsLeft, clicks, dateVars,
                 resolveVars, callInput>>

SpecDefaults == InitDefaults /\ [][ChooseDefaults]_vars

\* C21 (no accepted suggestion has an empty value): every entry pushed by
\* the acceptance loop, a substituted select default included, and every
\* entry pushed by the default backfill has a suggestedValue that is not
\* empty and not white space only.
NoEmptySuggestion ==
  callPc = "returned"
    => \A list \in {callResult.fallback, callResult.backfill} :
         \A e \in DOMAIN list : trim(list[e].suggestedValue) # <<>>

\* C22 (the backfill uses the default table of the select validation): for
\* the <select> of each role and every option list, addMissingDefaults
\* pushes an entry exactly when the select validation substitutes a
\* default, and with the same value.
BackfillUsesSameTable ==
  LET values(list) ==
        [e \in DOMAIN list |->
           [index |-> list[e].index, value |-> list[e].suggestedValue]]
  IN  callPc = "returned"
        => values(callResult.backfill) = values(callResult.fallback)


(***************************************************************************)
(* FormAnalyzer.resolveFieldIndex on suggestions that name fields of the   *)
(* application form in two ways at once                                    *)
(***************************************************************************)
\* Suggestions with up to three of the seven properties the resolver looks
\* at: one is that of field a or a value that no field has, one is that of
\* field b, and the index is absent or that of field 1 unless a or b set
\* it; next to them, the suggestion with no property and one with a
\* negative index.  An index is an integer, in range or not.
ChainInputs ==
  LET fieldsJson == Collected[1].fieldsJson
      Strategies == 1..7
      Fields == {0, 4, 30, 47, 48}
      \* the property of strategy s set to that of field f (f = -1: to a
      \* value that no field has)
      With(item, s, f) ==
        LET fj == fieldsJson[IF f = -1 THEN 1 ELSE f + 1]
            strange(v) == IF f = -1 THEN <<"z", "z", "-", "n", "o", "n", "e">> ELSE v
        IN  IF s = 1 THEN [item EXCEPT !.key = strange(fj.stableKey)]
            ELSE IF s = 2 THEN [item EXCEPT !.cssPath = strange(fj.cssPath)]
            ELSE IF s = 3 THEN [item EXCEPT !.id = strange(fj.id)]
            ELSE IF s = 4 THEN [item EXCEPT !.name = strange(fj.name)]
            ELSE IF s = 5 THEN [item EXCEPT !.label = strange(fj.label)]
            ELSE IF s = 6
            THEN [item EXCEPT
                    !.formIndex = <<IF f = -1 THEN 7 ELSE fj.formIndex>>,
                    !.orderWithinForm = <<fj.orderWithinForm>>]
            ELSE [item EXCEPT !.index = <<IF f = -1 THEN Len(fieldsJson) ELSE f>>]
      Valued == [NoItem EXCEPT !.value = <<"x">>]
      Indexed == [Valued EXCEPT !.index = <<1>>]
  IN  UNION {{With(With(item, s, a), t, b) :
                s \in Strategies, t \in Strategies,
                a \in Fields \cup {-1}, b \in Fields} :
             item \in {Valued, Indexed}}
      \cup {Valued, [Valued EXCEPT !.index = <<-1>>]}

InitChain ==
  /\ tab = 1
  /\ fillsLeft = 0
  /\ InitContent
  /\ InitGateway
  /\ InitDateIdle
  /\ InitCallIdle
  /\ rsKeyOf = -1
  /\ rsOther = -1
  /\ rsItem \in ChainInputs
  /\ rsResult = -1
  /\ rsPc = "start"

SpecChain == InitChain /\ [][Resolve]_vars

BatchPartition ==
  \A r \in DOMAIN runs :
    LET prompts == runs[r].prompts
        fieldsJson == Collected[tab].fieldsJson
        nonFile == {i \in 0..(Len(fieldsJson) - 1) :
                      fieldsJson[i + 1].type # <<"f", "i", "l", "e">>}
    IN  /\ \A k \in DOMAIN prompts : Cardinality(prompts[k]) <= batchSize
        /\ \A k \in DOMAIN prompts : \A l \in DOMAIN prompts :
             k < l => \A i \in prompts[k] : \A j \in prompts[l] : i < j
        /\ runs[r].outcome # "none" /\ ~runs[r].cancelled
             => \A i \in nonFile :
                  Cardinality({k \in DOMAIN prompts : i \in prompts[k]}) = 1

\* a run on the application form went through its three batches; the first
\* prompt leaves out the file input of the form
BatchPartitionWitness ==
  \E r \in DOMAIN runs :
    /\ runs[r].outcome # "none"
    /\ ~runs[r].cancelled
    /\ Len(runs[r].prompts) = 3
    /\ Len(Collected[tab].fieldsJson) > 2 * batchSize
    /\ \E i \in 0..(batchSize - 1) :
         /\ Collected[tab].fieldsJson[i + 1].type = <<"f", "i", "l", "e">>
         /\ i \notin runs[r].prompts[1]
         /\ Cardinality(runs[r].prompts[1]) = batchSize - 1


(***************************************************************************)
(* FormAnalyzer.collectAllFormElements on pages of two elements            *)
(***************************************************************************)
\* Pages of one form that hold an element of each make and a plain text
\* input: the element is an <input> of some type, a <textarea> or a <div>,
\* inside the form or outside it, with or without aria-label,
\* role="textbox" and contenteditable="true", displayed or not.  A hidden
\* input has no box.
CollectInputs ==
  LET Tags == {<<"I", "N", "P", "U", "T">>, <<"T", "E", "X", "T", "A", "R", "E", "A">>, <<"D", "I", "V">>}
      Types == {<<>>, <<"h", "i", "d", "d", "e", "n">>, <<"s", "u", "b", "m", "i", "t">>, <<"b", "u", "t", "t", "o", "n">>, <<"S", "u", "b", "m", "i", "t">>}
      Labels == {<<>>, <<"S", "e", "n", "d">>}
      Roles == {<<>>, <<"t", "e", "x", "t", "b", "o", "x">>}
      made(tag, type, label, role, editable, form, shown) ==
        [BlankNode EXCEPT
           !.tagName = tag, !.type = type, !.ariaLabel = label,
           !.role = role, !.contentEditable = editable, !.form = form,
           !.w = IF shown THEN 200 ELSE 0, !.h = IF shown THEN 30 ELSE 0]
      Made == {made(tag, type, label, role, editable, form, shown) :
                 tag \in Tags, type \in Types, label \in Labels,
                 role \in Roles, editable \in BOOLEAN, form \in {0, -1},
                 shown \in BOOLEAN}
      Elements == {node \in Made :
                     /\ node.tagName # <<"I", "N", "P", "U", "T">> => node.type = <<>>
                     /\ node.type = <<"h", "i", "d", "d", "e", "n">> => node.w = 0}
  IN  {[forms |-> <<[id |-> <<>>, name |-> <<>>, action |-> <<>>,
                     method |-> <<"g", "e", "t">>]>>,
        nodes |-> <<node, [BlankNode EXCEPT !.name = <<"e", "m", "a", "i", "l">>]>>] :
         node \in Elements}

InitCollect ==
  /\ tab = 1
  /\ fillsLeft = 0
  /\ InitContent
  /\ InitGateway
  /\ InitDateIdle
  /\ InitResolveIdle
  /\ callInput \in CollectInputs
  /\ callResult = <<>>
  /\ callPc = "start"

\* const elements = this.collectAllFormElements()
Collect ==
  /\ callPc = "start"
  /\ callResult' = collectAllFormElements(callInput)
  /\ callPc' = "returned"
  /\ UNCHANGED <<tab, contentVars, gatewayVars, fillsLeft, clicks, dateVars,
                 resolveVars, callInput>>

SpecCollect == InitCollect /\ [][Collect]_vars

\* C25 (collector exclusions): the collector returns no <input> whose type
\* is hidden, submit or button, whichever pass met it, and no element
\* twice.
CollectorExclusions ==
  callPc = "returned"
    => /\ \A k \in DOMAIN callResult :
            LET node == callInput.nodes[callResult[k].element]
            IN  ~ /\ node.tagName = <<"I", "N", "P", "U", "T">>
                  /\ elementType(node) \in {<<"h", "i", "d", "d", "e", "n">>, <<"s", "u", "b", "m", "i", "t">>, <<"b", "u", "t", "t", "o", "n">>}
       /\ \A k \in DOMAIN callResult : \A l \in DOMAIN callResult :
            callResult[k].element = callResult[l].element => k = l


(***************************************************************************)
(* FormAnalyzer.toggleField on the overlays of a filled form               *)
(***************************************************************************)
\* A form with a text input, a <select>, a date input and a file input,
\* followed by a content-editable block (collected as the fields 0 to 4);
\* a reply with one suggestion per field, the one for the file input being
\* there or not; what the controls hold before the run; and the overlay
\* whose toggle button is clicked.
ToggleInputs ==
  LET page ==
        [forms |-> <<[id |-> <<"a", "p", "p", "l", "y">>, name |-> <<"a", "p", "p", "l", "y">>,
                      action |-> <<"h", "t", "t", "p", "s", ":", "/", "/", "j", "o", "b", "s", ".", "e", "x", "a", "m", "p", "l", "e", "/", "a", "p", "p", "l", "y">>,
                      method |-> <<"p", "o", "s", "t">>]>>,
         nodes |->
           <<LabelledInput(<<"t", "e", "x", "t">>, <<"f", "i", "r", "s", "t", "_", "n", "a", "m", "e">>, <<"F", "i", "r", "s", "t", " ", "N", "a", "m", "e">>),
             LabelledSelect(<<"w", "o", "r", "k", "_", "a", "u", "t", "h", "o", "r", "i", "z", "a", "t", "i", "o", "n">>, <<"W", "o", "r", "k", " ", "a", "u", "t", "h", "o", "r", "i", "z", "a", "t", "i", "o", "n">>,
                            <<Option(<<>>, <<"S", "e", "l", "e", "c", "t", ".", ".", ".">>),
                              Option(<<"y", "e", "s">>, <<"Y", "e", "s">>), Option(<<"n", "o">>, <<"N", "o">>)>>),
             LabelledInput(<<"d", "a", "t", "e">>, <<"s", "t", "a", "r", "t", "_", "d", "a", "t", "e">>, <<"S", "t", "a", "r", "t", " ", "d", "a", "t", "e">>),
             LabelledInput(<<"f", "i", "l", "e">>, <<"r", "e", "s", "u", "m", "e">>, <<"R", "e", "s", "u", "m", "e">>),
             [BlankNode EXCEPT !.tagName = <<"D", "I", "V">>, !.id = <<"a", "b", "o", "u", "t">>,
                               !.contentEditable = TRUE, !.form = -1,
                               !.cssPath = <<"d", "i", "v", "#", "a", "b", "o", "u", "t">>]>>]
      item(i, value) == [NoItem EXCEPT !.index = <<i>>, !.value = value]
      Files == {<<>>, <<item(3, <<"c", "v", ".", "p", "d", "f">>)>>}
      Olds == {[n \in 1..5 |-> <<>>],
               <<<<"B", "o", "b">>, <<"n", "o">>, <<"2", "0", "1", "9", "-", "0", "1", "-", "0", "1">>, <<>>, <<"H", "e", "l", "l", "o">>>>}
  IN  {[page |-> page,
        items |-> <<item(0, name), item(1, choice)>> \o file
                    \o <<item(2, date), item(4, <<"A", "b", "o", "u", "t", " ", "m", "e">>)>>,
        old |-> old,
        index |-> index] :
         name \in {<<"A", "n", "n">>, <<" ", "L", "e", "e", " ">>},
         choice \in {<<"y", "e", "s">>, <<"N", "o">>, <<"m", "a", "y", "b", "e">>},
         date \in {<<"2", "0", "2", "0", "-", "0", "5", "-", "0", "3">>, <<"5", "/", "3", "/", "2", "0", "2", "0">>, <<"2", "0", "1", "7">>, <<"s", "o", "o", "n">>},
         file \in Files, old \in Olds, index \in 0..4}

InitToggle ==
  /\ tab = 1
  /\ fillsLeft = 0
  /\ InitContent
  /\ InitGateway
  /\ InitDateIdle
  /\ InitResolveIdle
  /\ callInput \in ToggleInputs
  /\ callResult = <<>>
  /\ callPc = "start"

\* the end of the run: the suggestions of the reply were accepted, and
\* createOverlays makes the overlays and fills the controls
ShowOverlays ==
  /\ callPc = "start"
  /\ LET shown(s) ==
           [identifiedFields |-> s.identifiedFields, controls |-> s.controls,
            fieldOverlays |-> s.fieldOverlays, uncaught |-> s.uncaught]
         accepted(an, acc) ==
           shown(createOverlays([Store EXCEPT
                                   !.collected = an,
                                   !.identifiedFields = acc.identifiedFields,
                                   !.controls = callInput.old]))
         analyzed(an) ==
           accepted(an,
                    acceptItems([identifiedFields |-> <<>>, usedIndices |-> {},
                                 discarded |-> 0, threw |-> FALSE],
                                callInput.items, 1, an.page, an.elements,
                                an.fieldsJson, 1, 0))
     IN  callResult' = <<analyzed(Analyzed(callInput.page))>>
  /\ callPc' = "shown"
  /\ UNCHANGED <<tab, contentVars, gatewayVars, fillsLeft, clicks, dateVars,
                 resolveVars, callInput>>

\* a click on the toggle button of an overlay: toggleBtn.onclick
ToggleClick ==
  /\ callPc \in {"shown", "once"}
  /\ callInput.index < callResult[1].fieldOverlays
  /\ callResult' = Append(callResult,
                          toggleField(callResult[Len(callResult)],
                                      callInput.index, callInput.page))
  /\ callPc' = IF callPc = "shown" THEN "once" ELSE "twice"
  /\ UNCHANGED <<tab, contentVars, gatewayVars, fillsLeft, clicks, dateVars,
                 resolveVars, callInput>>

SpecToggle == InitToggle /\ [][ShowOverlays \/ ToggleClick]_vars

\* C26 (toggle inverse): when the entry of the clicked overlay is included
\* and createOverlays has written its control, the first click sets
\* included to false and empties the control, the second click sets
\* included to true and the control holds again what the fill of the
\* suggested value had written; no other entry and no other control
\* changes.
ToggleInverse ==
  LET k == callInput.index + 1
      before == callResult[1]
      entry == before.identifiedFields[k]
      written == fillField(callInput.page.nodes[entry.element],
                           entry.suggestedValue, entry.isContentEditable,
                           callInput.old[entry.element], Today, Null)
      wasFilled == /\ entry.included
                   /\ entry.suggestedValue # <<>>
                   /\ written.assigned # Null
                   /\ ~written.threw
      others(after) ==
        /\ Len(after.identifiedFields) = Len(before.identifiedFields)
        /\ \A j \in DOMAIN before.identifiedFields :
             j # k => after.identifiedFields[j] = before.identifiedFields[j]
        /\ \A n \in DOMAIN before.controls :
             n # entry.element => after.controls[n] = before.controls[n]
  IN  callPc \in {"once", "twice"} /\ wasFilled =>
        /\ Len(callResult) >= 2 =>
             /\ ~callResult[2].identifiedFields[k].included
             /\ callResult[2].controls[entry.element] = <<>>
             /\ others(callResult[2])
        /\ Len(callResult) >= 3 =>
             /\ callResult[3].identifiedFields[k].included
             /\ callResult[3].controls[entry.element]
                  = before.controls[entry.element]
             /\ before.controls[entry.element] = written.value
             /\ callResult[3] = before
             /\ others(callResult[3])

\* the overlay of a filled <select> or date input was clicked twice: in
\* between the control was empty, now it holds the written value again
ToggleInverseWitness ==
  /\ callPc = "twice"
  /\ LET entry == callResult[1].identifiedFields[callInput.index + 1]
     IN  /\ entry.included
         /\ callInput.page.nodes[entry.element].tagName = <<"S", "E", "L", "E", "C", "T">>
              \/ elementType(callInput.page.nodes[entry.element]) = <<"d", "a", "t", "e">>
         /\ callResult[1].controls[entry.element] # <<>>
         /\ callResult[1].controls[entry.element]
              # callInput.old[entry.element]
         /\ callResult[2].controls[entry.element] = <<>>
         /\ callResult[3].controls[entry.element]
              = callResult[1].controls[entry.element]


\* C27 (bridge request lifecycle): every request posted through
\* AIBridge.post gets an id that was never used, and its promise is
\* settled exactly once.  In every step: new pending ids are above seq;
\* an id that has left the pending map does not return to it; whoever
\* awaits a request goes on only in the step in which its id leaves the
\* map, and goes on in that step; an awaited request is pending; the
\* dispatch of a reply whose id is no longer pending (one that comes after
\* a timeout or a cancellation, or the second of the two equal replies of
\* the gateway) changes nothing but the queue; a step that is no dispatch
\* (a timeout, a cancellation) changes neither the sessions of the gateway
\* nor starts or ends a fetch of it.
BridgeSettlesOnce ==
  [][LET waits(r, id) ==
           /\ runs[r].waitId = id
           /\ runs[r].pc \in {"createSession", "prompt", "destroy"}
         waitsAfter(r, id) ==
           /\ runs'[r].waitId = id
           /\ runs'[r].pc = runs[r].pc
         settled(id) == id \in pending /\ id \notin pending'
         dispatched == wq # <<>> /\ Len(wq') >= Len(wq) - 1
                          /\ \A k \in 2..Len(wq) : wq'[k - 1] = wq[k]
         kept == Len(wq') >= Len(wq) /\ \A k \in DOMAIN wq : wq'[k] = wq[k]
     IN  /\ seq' >= seq
         /\ pending' \ pending \subseteq (seq + 1)..seq'
         /\ \A id \in 1..seq : id \notin pending => id \notin pending'
         /\ \A r \in RunIds : \A id \in 1..seq :
              waits(r, id) =>
                /\ id \in pending
                /\ settled(id) <=> ~waitsAfter(r, id)
         /\ \A id \in cancels :
              /\ id \in pending
              /\ settled(id) <=> id \notin cancels'
         /\ (dispatched /\ ~kept /\ Head(wq).kind = "reply"
               /\ Head(wq).id \notin pending)
              => /\ wq' = Tail(wq)
                 /\ UNCHANGED <<isProcessing, isCancelled, currentSessionId,
                                identifiedFields, fieldOverlays, tracking,
                                seq, pending, injected, loadingOverlay,
                                actionPanels, controls, runs, cancels,
                                alerts, completes, uncaught, gatewayVars>>
         /\ (kept /\ pending' # pending /\ fillsLeft' = fillsLeft)
              => UNCHANGED <<sessions, sidCounter, fetches>>
    ]_vars

\* the first reply to CREATE_SESSION has settled the request and the run
\* has posted its first PROMPT; the second reply is at the head of the
\* queue, and its id is no longer pending
BridgeSettlesOnceWitness ==
  /\ wq # <<>>
  /\ Head(wq).kind = "reply"
  /\ Head(wq).id \notin pending
  /\ Head(wq).sessionId # 0
  /\ \E r \in RunIds : runs[r].pc = "prompt" /\ runs[r].waitId > Head(wq).id


(***************************************************************************)
(* Progress.  What the browser guarantees to the content script: a posted  *)
(* window message is dispatched, the timer of AIBridge.post fires while    *)
(* its request is pending, and chrome.storage.local.get calls back.        *)
(* Nothing is assumed of the gateway (the script may never load, a fetch   *)
(* may never end) nor of the user (fillForms requests, clicks on Cancel).  *)
(*                                                                         *)
(* DeliverMessage is enabled exactly when the queue is not empty, and its  *)
(* steps are those that take the head off the queue; BridgeTimeout is      *)
(* enabled exactly when a request is pending, and its steps are those      *)
(* that take an id out of the pending map without a dispatch and without   *)
(* a click.  WF_vars(DeliverMessage) and                                   *)
(* WF_vars(\E id \in pending : BridgeTimeout(id)) are stated in these     *)
(* terms: infinitely often disabled, or infinitely often taken.            *)
(***************************************************************************)
SpecLive ==
  /\ Spec
  /\ WF_vars(\E r \in RunIds : StorageLoaded(r))
  /\ \/ []<>(wq = <<>>)
     \/ []<><<LET kept == /\ Len(wq') >= Len(wq)
                          /\ \A k \in DOMAIN wq : wq'[k] = wq[k]
              IN  /\ wq # <<>>
                  /\ Len(wq') >= Len(wq) - 1
                  /\ \A k \in 2..Len(wq) : wq'[k - 1] = wq[k]
                  /\ ~kept>>_vars
  /\ \/ []<>(pending = {})
     \/ []<><<LET kept == /\ Len(wq') >= Len(wq)
                          /\ \A k \in DOMAIN wq : wq'[k] = wq[k]
              IN  /\ kept
                  /\ \E id \in pending : id \notin pending'
                  /\ clicks' = clicks>>_vars

\* C28 (no session leak): every session the gateway creates is destroyed
\* in the end, also when the Cancel click or the bridge timeout comes
\* while CREATE_SESSION is in flight.
NoSessionLeak ==
  \A sid \in 1..MaxFillRequests : [](sid \in sessions => <>(sid \notin sessions))

\* C29 (termination): every call of processFormFilling that has started
\* comes to its end, with isProcessing false and processingComplete sent,
\* whatever the gateway does.
RunsTerminate ==
  \A r \in RunIds :
    [](Active(runs[r])
         => <>(/\ runs[r].pc = "done"
               /\ ~isProcessing
               /\ completes >= Cardinality({q \in RunIds : runs[q].pc = "done"})))

\* a run whose PROMPT was never answered has ended by the bridge timeout
RunsTerminateWitness ==
  \E r \in RunIds :
    /\ runs[r].pc = "done"
    /\ runs[r].sent # {}
    /\ runs[r].failed # {}
    /\ fetches # {}
    /\ ~isProcessing
    /\ completes >= 1


\* C30 (key round-trip): for every collected field f, a suggestion that
\* carries nothing but key = f.stableKey is resolved to f.index: the table
\* from keys to indices maps the key of each field to that field, and no
\* two collected fields share an entry of it.
KeyRoundTrip ==
  LET fieldsJson == Collected[1].fieldsJson
      keyOnly == /\ rsItem.key # <<>>
                 /\ rsItem.cssPath = <<>> /\ rsItem.id = <<>>
                 /\ rsItem.name = <<>> /\ rsItem.label = <<>>
                 /\ rsItem.formIndex = <<>> /\ rsItem.orderWithinForm = <<>>
                 /\ rsItem.index = <<>>
  IN  rsPc = "done" /\ keyOnly
        => /\ \A k \in DOMAIN fieldsJson :
                fieldsJson[k].stableKey = rsItem.key
                  => rsResult = fieldsJson[k].index
           /\ \A k \in DOMAIN fieldsJson : \A l \in DOMAIN fieldsJson :
                fieldsJson[k].stableKey = fieldsJson[l].stableKey => k = l

=============================================================================
